---- MODULE Spec2Model ----
(***************************************************************************)
(* Model of the auth-service token engine (src/core/tokenManager.js) and   *)
(* of the authentication workflows of controllers/auth.controller.js.      *)
(* Time is in seconds (Math.floor(Date.now() / 1000)).                     *)
(***************************************************************************)
EXTENDS Integers, Sequences, FiniteSets, TLC

VARIABLES now, dir, req, mailbox, tok, vres, client, env, proc, parked,
          secretManager

vars == <<now, dir, req, mailbox, tok, vres, client, env, proc, parked,
          secretManager>>

(***************************************************************************)
(* Bounds                                                                  *)
(***************************************************************************)
\* the clock is sampled up to MaxSkew seconds before every token lifetime ends
MaxSkew == 1

(***************************************************************************)
(* Values                                                                  *)
(***************************************************************************)
Absent == "<absent>"
NoTime == -1
Null == [null |-> TRUE]
NoRoles == {"<undefined>"}
NoName == <<>>

\* getJwtConfig: JWT_SECRET, JWT_EXPIRATION, JWT_ISSUER, JWT_AUDIENCE
JwtSecret == "configured-secret-of-at-least-32-characters"
JwtExpiration == 3600
JwtIssuer == "auth-service"
JwtAudience == "xshopai-platform"

getJwtConfig ==
  [secret |-> JwtSecret, expiration |-> JwtExpiration,
   issuer |-> JwtIssuer, audience |-> JwtAudience]

OtherSecret == "another-secret"
OtherIssuer == "another-issuer"
OtherAudience == "another-audience"

\* the zeit/ms units jsonwebtoken's timespan() accepts, in seconds
UnitSeconds(unit) ==
  CASE unit = "s" -> 1
    [] unit = "m" -> 60
    [] unit = "h" -> 60 * 60
    [] unit = "d" -> 24 * 60 * 60

\* an expiresIn string such as '1h' is [n |-> 1, unit |-> "h"]
NoExpiresIn == [n |-> 0, unit |-> Absent]
Span(n, unit) == [n |-> n, unit |-> unit]
Timespan(expiresIn) == expiresIn.n * UnitSeconds(expiresIn.unit)

\* a reset link that lives as long as a verification link
ResetTtl_OneDay == Span(1, "d")

\* the lifetimes the controllers ask for
ResetTtl == Span(1, "h")
VerifyTtl == Span(1, "d")
InternalTtl == Span(15, "m")

Lifetimes == {Timespan(ResetTtl), Timespan(VerifyTtl), Timespan(InternalTtl), JwtExpiration}

\* the instants the clock is sampled at: the start, and every lifetime after
\* the start and up to MaxSkew seconds before it
Instants == {0} \cup {l - d : l \in Lifetimes, d \in 0 .. MaxSkew}

(***************************************************************************)
(* Token engine                                                            *)
(***************************************************************************)
\* a JWT payload; a claim that is not set is Absent (NoTime, NoRoles, NoName)
Payload(sub, id, email, name, roles, emailVerified, iss, aud, iat) ==
  [sub |-> sub, id |-> id, email |-> email, name |-> name, roles |-> roles,
   emailVerified |-> emailVerified, iss |-> iss, aud |-> aud, iat |-> iat,
   exp |-> NoTime]

\* purpose-token claims that also name the account id
EmailClaims_WithId(email) ==
  Payload(Absent, email, email, NoName, NoRoles, Absent, Absent, Absent, NoTime)

\* the claims of a purpose token: signToken({ email }, ...)
EmailClaims(email) ==
  Payload(Absent, Absent, email, NoName, NoRoles, Absent, Absent, Absent, NoTime)

\* a compact JWS: the payload and the key its signature was made with
Malformed == [wellformed |-> FALSE, key |-> Absent, payload |-> EmailClaims(Absent)]

\* jwt.sign(payload, secret, options) at time t
JwtSign(payload, secret, options, t) ==
  LET timestamp == IF payload.iat # NoTime THEN payload.iat ELSE t
      claims == [payload EXCEPT
                   !.iat = timestamp,
                   !.exp = timestamp + Timespan(options.expiresIn),
                   !.iss = IF options.issuer # Absent THEN options.issuer ELSE @,
                   !.aud = IF options.audience # Absent THEN options.audience ELSE @]
  IN [wellformed |-> TRUE, key |-> secret, payload |-> claims]

\* jwt.verify(token, secret, {issuer, audience}) at time t
JwtVerify(token, secret, options, t) ==
  IF ~token.wellformed THEN [err |-> "JsonWebTokenError", payload |-> Null]
  ELSE IF token.key # secret THEN [err |-> "JsonWebTokenError", payload |-> Null]
  ELSE IF token.payload.exp # NoTime /\ t >= token.payload.exp
    THEN [err |-> "TokenExpiredError", payload |-> Null]
  ELSE IF token.payload.aud # options.audience
    THEN [err |-> "JsonWebTokenError", payload |-> Null]
  ELSE IF token.payload.iss # options.issuer
    THEN [err |-> "JsonWebTokenError", payload |-> Null]
  ELSE [err |-> "none", payload |-> token.payload]

\* signToken that always signs with the configured default expiry
signToken_IgnoresTtl(payload, expiresIn, t) ==
  LET jwtConfig == getJwtConfig
      options == [expiresIn |-> Span(jwtConfig.expiration, "s"),
                  issuer |-> IF payload.iss = Absent THEN jwtConfig.issuer ELSE Absent,
                  audience |-> IF payload.aud = Absent THEN jwtConfig.audience ELSE Absent]
  IN JwtSign(payload, jwtConfig.secret, options, t)

signToken(payload, expiresIn, t) ==
  LET jwtConfig == getJwtConfig
      tokenExpiration == IF expiresIn # NoExpiresIn THEN expiresIn
                         ELSE Span(jwtConfig.expiration, "s")
      options == [expiresIn |-> tokenExpiration,
                  issuer |-> IF payload.iss = Absent THEN jwtConfig.issuer ELSE Absent,
                  audience |-> IF payload.aud = Absent THEN jwtConfig.audience ELSE Absent]
  IN JwtSign(payload, jwtConfig.secret, options, t)

\* the outcome of a call: the value returned, or threw = TRUE
Returned(v) == [threw |-> FALSE, value |-> v]
Threw(name) == [threw |-> TRUE, value |-> [null |-> TRUE, err |-> name]]

\* verifyToken that passes no audience to jwt.verify
verifyToken_NoAudience(token, t) ==
  LET jwtConfig == getJwtConfig
      r == JwtVerify(token, jwtConfig.secret,
                     [issuer |-> jwtConfig.issuer, audience |-> token.payload.aud], t)
  IN IF r.err = "none" THEN Returned(r.payload) ELSE Returned(Null)

verifyToken(token, t) ==
  LET jwtConfig == getJwtConfig
      r == JwtVerify(token, jwtConfig.secret,
                     [issuer |-> jwtConfig.issuer, audience |-> jwtConfig.audience], t)
  IN IF r.err = "none" THEN Returned(r.payload) ELSE Returned(Null)

(***************************************************************************)
(* The token engine on its own: sign any claims, present any token         *)
(***************************************************************************)
Emails == {"a@x.com"}

\* claims a caller may hand to signToken, iss / aud / iat pre-set or not
CallerClaims ==
  {[EmailClaims("a@x.com") EXCEPT !.iss = i, !.aud = a, !.iat = t] :
     i \in {Absent, JwtIssuer, OtherIssuer},
     a \in {Absent, JwtAudience, OtherAudience},
     t \in {NoTime, 0}}

CallerTtls == {NoExpiresIn, ResetTtl, VerifyTtl, InternalTtl}

\* tokens made elsewhere: another secret, issuer or audience, any expiry
ForeignTokens ==
  {Malformed} \cup
  {[wellformed |-> TRUE, key |-> k,
    payload |-> [EmailClaims("a@x.com") EXCEPT !.iss = i, !.aud = a, !.iat = 0, !.exp = e]] :
     k \in {JwtSecret, OtherSecret}, i \in {JwtIssuer, OtherIssuer},
     a \in {JwtAudience, OtherAudience}, e \in Instants \ {0}}

NoTok == [origin |-> "none", token |-> Malformed, claims |-> EmailClaims(Absent),
          expiresIn |-> NoExpiresIn, at |-> NoTime]
NoVres == [done |-> FALSE, at |-> NoTime, out |-> Returned(Null)]

(***************************************************************************)
(* Directory records, requests and responses                               *)
(***************************************************************************)
Passwords == {"pw1", "pw2"}

\* bcrypt.hash / bcrypt.compare
Hash(plain) == <<"bcrypt", plain>>
bcryptCompare(plain, hash) == hash = Hash(plain)

\* user._id.toString()
IdOf(email) == CASE email = "a@x.com" -> "id-a" [] OTHER -> "id-other"

\* a user record of the User Directory; isActive may be missing from it
User(email, plain, isActive, isEmailVerified) ==
  [id |-> IdOf(email), email |-> email, password |-> Hash(plain),
   firstName |-> "A", lastName |-> "B", name |-> NoName, roles |-> {"customer"},
   isEmailVerified |-> isEmailVerified, isActive |-> isActive]

Truthy(flag) == flag = "true"

MissingToken == [Malformed EXCEPT !.key = "<missing>"]
NoCookie == [name |-> Absent, value |-> Malformed, httpOnly |-> FALSE,
             sameSite |-> Absent, maxAge |-> 0]
NoResp == [status |-> 0, message |-> Absent, token |-> MissingToken, user |-> Null,
           requiresVerification |-> FALSE]

\* no answer of the User Directory has been received by the handler yet
NoStatus == -1

\* the fields a PATCH to the User Directory may carry in its JSON body
NoBody == [newPassword |-> Absent, isReset |-> Absent,
           isEmailVerified |-> Absent, isActive |-> Absent, password |-> Absent,
           oldPassword |-> Absent]

\* the PATCH a handler sent: its Authorization bearer token and its body
NoPatch == [sent |-> FALSE, auth |-> MissingToken, body |-> NoBody]

\* req.headers.authorization: its scheme and what follows the first space
\* ('Bearer' alone, or 'Bearer ' with nothing after it: no token)
NoHeader == [scheme |-> Absent, token |-> MissingToken]
Bearer(token) == [scheme |-> "Bearer", token |-> token]
Basic(credentials) == [scheme |-> "Basic", token |-> credentials]

\* the error a middleware hands to next(): an ErrorResponse with its
\* statusCode, or the error jwt.verify threw, which carries none
NoError == [name |-> "none", message |-> Absent, statusCode |-> 0]
ErrorResponse(message, statusCode) ==
  [name |-> "ErrorResponse", message |-> message, statusCode |-> statusCode]

\* the DELETE a handler sent to the User Directory
NoDelete == [sent |-> FALSE, id |-> Absent, auth |-> MissingToken]

\* req.body of a registration: the fields register reads and fields it does
\* not read (roles, isEmailVerified, isActive)
RegistrationBody(email, password, firstName, lastName) ==
  [email |-> email, password |-> password, firstName |-> firstName,
   lastName |-> lastName, phoneNumber |-> Absent,
   roles |-> NoRoles, isEmailVerified |-> Absent, isActive |-> Absent]
NoRegistration == RegistrationBody(Absent, Absent, Absent, Absent)

\* the userData register hands to createUser
NoUserData ==
  [email |-> Absent, password |-> Absent, firstName |-> Absent, lastName |-> Absent,
   phoneNumber |-> Absent, isEmailVerified |-> Absent, roles |-> NoRoles,
   isActive |-> Absent]

NewReq(handler) ==
  [pc |-> "idle", handler |-> handler, email |-> Absent, password |-> Absent,
   header |-> NoHeader, cookies |-> MissingToken, identity |-> Null,
   err |-> NoError, ran |-> <<>>, del |-> NoDelete, oldPassword |-> Absent,
   required |-> NoRoles, body |-> NoRegistration, userData |-> NoUserData,
   token |-> MissingToken, tokenBy |-> "none", user |-> Null, lookups |-> 0,
   minted |-> Malformed, mintedAt |-> NoTime, cookie |-> NoCookie,
   topic |-> Absent, pub |-> <<>>, hung |-> FALSE, resp |-> NoResp,
   dirStatus |-> NoStatus, patch |-> NoPatch]

Idle == NewReq("none")

\* dapr.secret.manager.js before the module is loaded: no instance, no call
NoAnswer == [called |-> FALSE, threw |-> FALSE, secret |-> Absent]
NotLoaded ==
  [messagingProvider |-> Absent, client |-> "undefined", importing |-> FALSE,
   store |-> Absent, answer |-> NoAnswer]

\* what a caller keeps of a login response: the token of the body and the
\* token cookie of its cookie jar
NoClient == [session |-> MissingToken, jar |-> MissingToken]

\* process.env as deployed: JWT_SECRET set, the other JWT_* variables unset
ConfiguredEnv ==
  [JWT_SECRET |-> JwtSecret, JWT_EXPIRATION |-> Absent,
   JWT_ISSUER |-> Absent, JWT_AUDIENCE |-> Absent]

\* the process after app.js has loaded: validateConfig passed, the guard's
\* _jwtConfigCache is still null, nothing was signed or verified yet
NoCall == [op |-> "none", threw |-> FALSE, config |-> Null]
Serving == [phase |-> "serving", guardCache |-> Null, engineReads |-> 0, last |-> NoCall]
NoMail == [by |-> "none", token |-> Malformed, at |-> NoTime]

\* next(new ErrorResponse(message, status)), or res.status(status).json({ message })
Respond(r, status, message) ==
  [r EXCEPT !.pc = "done", !.resp = [NoResp EXCEPT !.status = status, !.message = message]]

(***************************************************************************)
(* Upstream calls                                                          *)
(***************************************************************************)
\* what the User Directory may answer to findByEmail: the record, a 404,
\* an error status, or no HTTP answer at all (status 0: fetch rejects)
FindAnswers(email) ==
  (IF email \in DOMAIN dir /\ dir[email] # Null
     THEN {[status |-> 200, body |-> dir[email]]}
     ELSE {[status |-> 404, body |-> Null]})
  \cup {[status |-> 503, body |-> Null], [status |-> 0, body |-> Null]}

\* getUserByEmail: invokeService throws on a non-2xx answer, every error is null
getUserByEmail(answer) ==
  IF answer.status = 200 THEN answer.body ELSE Null

\* what provider.publishEvent may do: resolve true, resolve false, or throw
ProviderResults == {"ok", "failed", "throws"}

\* publishEvent that lets the provider's error through
publishEvent_Rethrows(providerResult) ==
  IF providerResult = "throws" THEN "rejected" ELSE "resolved"

\* publishEvent that rejects when the provider reports a failed publication
publishEvent_RejectsOnFalse(providerResult) ==
  IF providerResult = "failed" THEN "rejected" ELSE "resolved"

\* publishEvent: try { await provider.publishEvent(...) } catch { log }
publishEvent(providerResult) ==
  IF providerResult = "throws" THEN "resolved" ELSE "resolved"

\* the request is suspended on an upstream call that can still answer
Awaiting(pc, handler) ==
  /\ req.pc = pc
  /\ req.handler = handler
  /\ ~req.hung

CanStart == req.pc \in {"idle", "done"}

\* the handler resumes after `try { await publishEvent(topic, ...) } catch { log }`
AfterPublish(r, providerResult) ==
  [r EXCEPT !.pub = Append(@, [topic |-> r.topic, result |-> providerResult,
                               settled |-> publishEvent(providerResult)])]

\* a token leaves the service: in a published event, a response or a request
Deliver(by, token, at) == [by |-> by, token |-> token, at |-> at]

(***************************************************************************)
(* issueJwtToken                                                           *)
(***************************************************************************)
FullName(user) ==
  IF user.name # NoName THEN user.name ELSE <<user.firstName, user.lastName>>

\* issueJwtToken that hands the expiry in seconds to res.cookie
issueJwtToken_MaxAgeSeconds(user, t) ==
  LET jwtConfig == getJwtConfig
      payload == Payload(user.id, Absent, user.email, FullName(user),
                         IF user.roles # NoRoles THEN user.roles ELSE {"customer"},
                         IF Truthy(user.isEmailVerified) THEN "true" ELSE "false",
                         jwtConfig.issuer, jwtConfig.audience, t)
      token == signToken(payload, NoExpiresIn, t)
  IN [token |-> token,
      cookie |-> [name |-> "token", value |-> token, httpOnly |-> TRUE,
                  sameSite |-> "strict", maxAge |-> jwtConfig.expiration]]

issueJwtToken(user, t) ==
  LET jwtConfig == getJwtConfig
      payload == Payload(user.id, Absent, user.email, FullName(user),
                         IF user.roles # NoRoles THEN user.roles ELSE {"customer"},
                         IF Truthy(user.isEmailVerified) THEN "true" ELSE "false",
                         jwtConfig.issuer, jwtConfig.audience, t)
      token == signToken(payload, NoExpiresIn, t)
  IN [token |-> token,
      cookie |-> [name |-> "token", value |-> token, httpOnly |-> TRUE,
                  sameSite |-> "strict", maxAge |-> jwtConfig.expiration * 1000]]

(***************************************************************************)
(* login                                                                   *)
(***************************************************************************)
\* a profile that is the directory's record as it came
Profile_Whole(user) == user

\* the profile login returns: no password field
Profile(user) ==
  [id |-> user.id, email |-> user.email, firstName |-> user.firstName,
   lastName |-> user.lastName, name |-> FullName(user), roles |-> user.roles,
   isEmailVerified |-> user.isEmailVerified, isActive |-> user.isActive]

\* login that looks at the email verification before the deactivation
LoginCheck_VerifiedFirst(user, password) ==
  IF user = Null THEN [status |-> 401, message |-> "Invalid credentials"]
  ELSE IF ~Truthy(user.isEmailVerified)
    THEN [status |-> 403, message |-> "Please verify your email before logging in"]
  ELSE IF user.isActive = "false"
    THEN [status |-> 403, message |-> "Account is deactivated"]
  ELSE IF ~bcryptCompare(password, user.password)
    THEN [status |-> 401, message |-> "Invalid credentials"]
  ELSE [status |-> 200, message |-> Absent]

\* login that never compares the password
LoginCheck_NoPasswordCheck(user, password) ==
  IF user = Null THEN [status |-> 401, message |-> "Invalid credentials"]
  ELSE IF user.isActive = "false"
    THEN [status |-> 403, message |-> "Account is deactivated"]
  ELSE IF ~Truthy(user.isEmailVerified)
    THEN [status |-> 403, message |-> "Please verify your email before logging in"]
  ELSE [status |-> 200, message |-> Absent]

\* login that tells a wrong password apart from an unknown email
LoginCheck_TellsWrongPassword(user, password) ==
  IF user = Null THEN [status |-> 401, message |-> "Invalid credentials"]
  ELSE IF user.isActive = "false"
    THEN [status |-> 403, message |-> "Account is deactivated"]
  ELSE IF ~Truthy(user.isEmailVerified)
    THEN [status |-> 403, message |-> "Please verify your email before logging in"]
  ELSE IF ~bcryptCompare(password, user.password)
    THEN [status |-> 401, message |-> "Incorrect password"]
  ELSE [status |-> 200, message |-> Absent]

\* the checks of login on the record the lookup returned, in order
LoginCheck(user, password) ==
  IF user = Null THEN [status |-> 401, message |-> "Invalid credentials"]
  ELSE IF user.isActive = "false"
    THEN [status |-> 403, message |-> "Account is deactivated"]
  ELSE IF ~Truthy(user.isEmailVerified)
    THEN [status |-> 403, message |-> "Please verify your email before logging in"]
  ELSE IF ~bcryptCompare(password, user.password)
    THEN [status |-> 401, message |-> "Invalid credentials"]
  ELSE [status |-> 200, message |-> Absent]

login ==
  /\ CanStart
  /\ \E email \in Emails \cup {Absent}, password \in Passwords \cup {Absent} :
       LET r == [NewReq("login") EXCEPT !.email = email, !.password = password]
       IN req' = IF email = Absent \/ password = Absent
                   THEN Respond(r, 400, "Email and password are required")
                   ELSE [r EXCEPT !.pc = "getUser"]
  /\ UNCHANGED <<now, dir, mailbox, tok, vres, client, env, proc, parked, secretManager>>

loginGotUser ==
  /\ Awaiting("getUser", "login")
  /\ \E answer \in FindAnswers(req.email) :
       LET user == getUserByEmail(answer)
           r == [req EXCEPT !.user = user, !.lookups = @ + 1, !.dirStatus = answer.status]
           check == LoginCheck(user, req.password)
           issued == issueJwtToken(user, now)
       IN req' = IF check.status # 200
                   THEN Respond(r, check.status, check.message)
                   ELSE [r EXCEPT !.pc = "publish", !.topic = "auth.login",
                                  !.minted = issued.token, !.mintedAt = now,
                                  !.cookie = issued.cookie]
  /\ UNCHANGED <<now, dir, mailbox, tok, vres, client, env, proc, parked, secretManager>>

loginPublished ==
  /\ Awaiting("publish", "login")
  /\ \E result \in ProviderResults :
       LET r == AfterPublish(req, result)
       IN req' = [r EXCEPT !.pc = "done",
                           !.resp = [NoResp EXCEPT !.status = 200,
                                                   !.token = r.minted,
                                                   !.user = Profile(r.user)]]
  /\ mailbox' = Deliver("login", req.minted, req.mintedAt)
  /\ UNCHANGED <<now, dir, tok, vres, client, env, proc, parked, secretManager>>

(***************************************************************************)
(* forgotPassword                                                          *)
(***************************************************************************)
forgotPassword ==
  /\ CanStart
  /\ \E email \in Emails \cup {Absent} :
       LET r == [NewReq("forgotPassword") EXCEPT !.email = email]
       IN req' = IF email = Absent
                   THEN Respond(r, 400, "Email is required")
                   ELSE [r EXCEPT !.pc = "getUser"]
  /\ UNCHANGED <<now, dir, mailbox, tok, vres, client, env, proc, parked, secretManager>>

forgotPasswordGotUser ==
  /\ Awaiting("getUser", "forgotPassword")
  /\ \E answer \in FindAnswers(req.email) :
       LET user == getUserByEmail(answer)
           r == [req EXCEPT !.user = user, !.lookups = @ + 1, !.dirStatus = answer.status]
       IN req' = IF user = Null
                   THEN Respond(r, 404, "User not found")
                   ELSE [r EXCEPT !.pc = "publish",
                                  !.topic = "auth.password.reset.requested",
                                  !.minted = signToken(EmailClaims(req.email), ResetTtl, now),
                                  !.mintedAt = now]
  /\ UNCHANGED <<now, dir, mailbox, tok, vres, client, env, proc, parked, secretManager>>

forgotPasswordPublished ==
  /\ Awaiting("publish", "forgotPassword")
  /\ \E result \in ProviderResults :
       /\ req' = Respond(AfterPublish(req, result), 200, "Password reset email sent")
       /\ mailbox' = IF result = "ok"
                       THEN Deliver("forgotPassword", req.minted, req.mintedAt)
                       ELSE mailbox
  /\ UNCHANGED <<now, dir, tok, vres, client, env, proc, parked, secretManager>>

(***************************************************************************)
(* Tokens a caller can present and answers to a directory write            *)
(***************************************************************************)
\* the token that last left the service, the same claims under a foreign
\* signature, the same token as another issuer or for another audience would
\* have signed it with the shared secret, a malformed string, or nothing
PresentableTokens ==
  {Malformed, MissingToken} \cup
  (IF mailbox.by = "none" THEN {}
   ELSE {mailbox.token, [mailbox.token EXCEPT !.key = OtherSecret],
         [mailbox.token EXCEPT !.payload.iss = OtherIssuer],
         [mailbox.token EXCEPT !.payload.aud = OtherAudience]})

\* fetch(USER_SERVICE_URL, { method: 'PATCH' }): resp.status and the error of
\* its JSON body (Absent: the body is not JSON or carries no error)
PatchAnswers ==
  {[status |-> 200, error |-> Absent],
   [status |-> 400, error |-> "directory validation error"],
   [status |-> 503, error |-> Absent]}

Or(value, fallback) == IF value # Absent THEN value ELSE fallback

\* the claims of the token that authorizes the service's own PATCH
InternalClaims(user) ==
  Payload(Absent, user.id, user.email, NoName, user.roles, Absent, Absent, Absent, NoTime)

\* a commit phase that tells the caller when the token has expired
CommitStart_TellsExpired(handler, token, missingMessage) ==
  LET r == [NewReq(handler) EXCEPT
              !.token = token,
              !.tokenBy = IF token = mailbox.token THEN mailbox.by ELSE "none"]
      jwtConfig == getJwtConfig
      v == JwtVerify(token, jwtConfig.secret,
                     [issuer |-> jwtConfig.issuer, audience |-> jwtConfig.audience], now)
  IN IF token = MissingToken THEN Respond(r, 400, missingMessage)
     ELSE IF v.err = "TokenExpiredError" THEN Respond(r, 400, "Token has expired")
     ELSE IF v.payload = Null THEN Respond(r, 400, "Invalid or expired token")
     ELSE [r EXCEPT !.pc = "getUser", !.email = v.payload.email]

\* the commit phases start alike: token present, verifyToken, then the lookup
\* (tokenBy notes which workflow handed out the token presented)
CommitStart(handler, token, missingMessage) ==
  LET r == [NewReq(handler) EXCEPT
              !.token = token,
              !.tokenBy = IF token = mailbox.token THEN mailbox.by ELSE "none"]
      payload == verifyToken(token, now).value
  IN IF token = MissingToken THEN Respond(r, 400, missingMessage)
     ELSE IF payload = Null THEN Respond(r, 400, "Invalid or expired token")
     ELSE [r EXCEPT !.pc = "getUser", !.email = payload.email]

(***************************************************************************)
(* resetPassword                                                           *)
(***************************************************************************)
resetPassword ==
  /\ CanStart
  /\ \E token \in PresentableTokens, newPassword \in Passwords \cup {Absent} :
       req' = IF newPassword = Absent
                THEN Respond([NewReq("resetPassword") EXCEPT !.token = token],
                             400, "Token and new password are required")
                ELSE [CommitStart("resetPassword", token,
                                  "Token and new password are required")
                        EXCEPT !.password = newPassword]
  /\ UNCHANGED <<now, dir, mailbox, tok, vres, client, env, proc, parked, secretManager>>

resetPasswordGotUser ==
  /\ Awaiting("getUser", "resetPassword")
  /\ \E answer \in FindAnswers(req.email) :
       LET user == getUserByEmail(answer)
           r == [req EXCEPT !.user = user, !.lookups = @ + 1, !.dirStatus = answer.status]
       IN req' = IF user = Null THEN Respond(r, 404, "User not found")
                 ELSE [r EXCEPT !.pc = "patch",
                                !.patch = [sent |-> TRUE, auth |-> MissingToken,
                                           body |-> [NoBody EXCEPT
                                                       !.newPassword = req.password,
                                                       !.isReset = "true"]]]
  /\ UNCHANGED <<now, dir, mailbox, tok, vres, client, env, proc, parked, secretManager>>

\* PATCH /users/ { newPassword, isReset: true }: it names no account
resetPasswordPatched ==
  /\ Awaiting("patch", "resetPassword")
  /\ \E answer \in PatchAnswers :
       LET r == [req EXCEPT !.dirStatus = answer.status]
       IN req' = IF answer.status # 200
                   THEN Respond(r, answer.status, Or(answer.error, "Failed to reset password"))
                   ELSE [r EXCEPT !.pc = "publish", !.topic = "auth.password.reset.completed"]
  /\ UNCHANGED <<now, dir, mailbox, tok, vres, client, env, proc, parked, secretManager>>

resetPasswordPublished ==
  /\ Awaiting("publish", "resetPassword")
  /\ \E result \in ProviderResults :
       req' = Respond(AfterPublish(req, result), 200, "Password reset successful")
  /\ UNCHANGED <<now, dir, mailbox, tok, vres, client, env, proc, parked, secretManager>>

(***************************************************************************)
(* verifyEmail                                                             *)
(***************************************************************************)
verifyEmail ==
  /\ CanStart
  /\ \E token \in PresentableTokens :
       req' = CommitStart("verifyEmail", token, "Token is required")
  /\ UNCHANGED <<now, dir, mailbox, tok, vres, client, env, proc, parked, secretManager>>

\* verifyEmail without the early return for a verified account
verifyEmailGotUser_AlwaysPatches ==
  /\ Awaiting("getUser", "verifyEmail")
  /\ \E answer \in FindAnswers(req.email) :
       LET user == getUserByEmail(answer)
           r == [req EXCEPT !.user = user, !.lookups = @ + 1, !.dirStatus = answer.status]
           userJwt == signToken(InternalClaims(user), InternalTtl, now)
       IN IF user = Null
            THEN req' = Respond(r, 404, "User not found") /\ mailbox' = mailbox
          ELSE /\ req' = [r EXCEPT !.pc = "patch", !.minted = userJwt, !.mintedAt = now,
                                      !.patch = [sent |-> TRUE, auth |-> userJwt,
                                                 body |-> [NoBody EXCEPT
                                                             !.isEmailVerified = "true"]]]
               /\ mailbox' = Deliver("verifyEmail", userJwt, now)
  /\ UNCHANGED <<now, dir, tok, vres, client, env, proc, parked, secretManager>>

\* verifyEmail refusing an account that is verified already, as the request
\* phase does
verifyEmailGotUser_RefusesVerified ==
  /\ Awaiting("getUser", "verifyEmail")
  /\ \E answer \in FindAnswers(req.email) :
       LET user == getUserByEmail(answer)
           r == [req EXCEPT !.user = user, !.lookups = @ + 1, !.dirStatus = answer.status]
           userJwt == signToken(InternalClaims(user), InternalTtl, now)
       IN IF user = Null
            THEN req' = Respond(r, 404, "User not found") /\ mailbox' = mailbox
          ELSE IF Truthy(user.isEmailVerified)
            THEN req' = Respond(r, 400, "Email is already verified") /\ mailbox' = mailbox
          ELSE /\ req' = [r EXCEPT !.pc = "patch", !.minted = userJwt, !.mintedAt = now,
                                      !.patch = [sent |-> TRUE, auth |-> userJwt,
                                                 body |-> [NoBody EXCEPT
                                                             !.isEmailVerified = "true"]]]
               /\ mailbox' = Deliver("verifyEmail", userJwt, now)
  /\ UNCHANGED <<now, dir, tok, vres, client, env, proc, parked, secretManager>>

verifyEmailGotUser ==
  /\ Awaiting("getUser", "verifyEmail")
  /\ \E answer \in FindAnswers(req.email) :
       LET user == getUserByEmail(answer)
           r == [req EXCEPT !.user = user, !.lookups = @ + 1, !.dirStatus = answer.status]
           userJwt == signToken(InternalClaims(user), InternalTtl, now)
       IN IF user = Null
            THEN req' = Respond(r, 404, "User not found") /\ mailbox' = mailbox
          ELSE IF Truthy(user.isEmailVerified)
            THEN req' = Respond(r, 200, "Email already verified") /\ mailbox' = mailbox
          ELSE /\ req' = [r EXCEPT !.pc = "patch", !.minted = userJwt, !.mintedAt = now,
                                      !.patch = [sent |-> TRUE, auth |-> userJwt,
                                                 body |-> [NoBody EXCEPT
                                                             !.isEmailVerified = "true"]]]
               /\ mailbox' = Deliver("verifyEmail", userJwt, now)
  /\ UNCHANGED <<now, dir, tok, vres, client, env, proc, parked, secretManager>>

\* verifyEmail whose write also activates the account
verifyEmailPatched_Activates ==
  /\ Awaiting("patch", "verifyEmail")
  /\ \E answer \in PatchAnswers :
       IF answer.status # 200
         THEN /\ req' = Respond([req EXCEPT !.dirStatus = answer.status],
                                 answer.status, Or(answer.error, "Email verification failed"))
              /\ dir' = dir
         ELSE /\ req' = Respond([req EXCEPT !.dirStatus = answer.status],
                                 200, "Email verified successfully")
              /\ dir' = [dir EXCEPT ![req.user.email].isEmailVerified = "true",
                                    ![req.user.email].isActive = "true"]
  /\ UNCHANGED <<now, mailbox, tok, vres, client, env, proc, parked, secretManager>>

\* PATCH { isEmailVerified: true } with Authorization: Bearer userJwt
verifyEmailPatched ==
  /\ Awaiting("patch", "verifyEmail")
  /\ \E answer \in PatchAnswers :
       IF answer.status # 200
         THEN /\ req' = Respond([req EXCEPT !.dirStatus = answer.status],
                                 answer.status, Or(answer.error, "Email verification failed"))
              /\ dir' = dir
         ELSE /\ req' = Respond([req EXCEPT !.dirStatus = answer.status],
                                 200, "Email verified successfully")
              /\ dir' = [dir EXCEPT ![req.user.email].isEmailVerified = "true"]
  /\ UNCHANGED <<now, mailbox, tok, vres, client, env, proc, parked, secretManager>>

(***************************************************************************)
(* resendVerificationEmail                                                 *)
(***************************************************************************)
resendVerificationEmail ==
  /\ CanStart
  /\ \E email \in Emails \cup {Absent} :
       LET r == [NewReq("resendVerificationEmail") EXCEPT !.email = email]
       IN req' = IF email = Absent
                   THEN Respond(r, 400, "Email is required")
                   ELSE [r EXCEPT !.pc = "getUser"]
  /\ UNCHANGED <<now, dir, mailbox, tok, vres, client, env, proc, parked, secretManager>>

\* resendVerificationEmail without the check for a verified account
resendVerificationEmailGotUser_NoVerifiedCheck ==
  /\ Awaiting("getUser", "resendVerificationEmail")
  /\ \E answer \in FindAnswers(req.email) :
       LET user == getUserByEmail(answer)
           r == [req EXCEPT !.user = user, !.lookups = @ + 1, !.dirStatus = answer.status]
       IN req' = IF user = Null THEN Respond(r, 404, "User not found")
                 ELSE [r EXCEPT !.pc = "publish",
                                !.topic = "auth.email.verification.requested",
                                !.minted = signToken(EmailClaims(req.email), VerifyTtl, now),
                                !.mintedAt = now]
  /\ UNCHANGED <<now, dir, mailbox, tok, vres, client, env, proc, parked, secretManager>>

resendVerificationEmailGotUser ==
  /\ Awaiting("getUser", "resendVerificationEmail")
  /\ \E answer \in FindAnswers(req.email) :
       LET user == getUserByEmail(answer)
           r == [req EXCEPT !.user = user, !.lookups = @ + 1, !.dirStatus = answer.status]
       IN req' = IF user = Null THEN Respond(r, 404, "User not found")
                 ELSE IF Truthy(user.isEmailVerified)
                   THEN Respond(r, 400, "Email is already verified")
                 ELSE [r EXCEPT !.pc = "publish",
                                !.topic = "auth.email.verification.requested",
                                !.minted = signToken(EmailClaims(req.email), VerifyTtl, now),
                                !.mintedAt = now]
  /\ UNCHANGED <<now, dir, mailbox, tok, vres, client, env, proc, parked, secretManager>>

resendVerificationEmailPublished ==
  /\ Awaiting("publish", "resendVerificationEmail")
  /\ \E result \in ProviderResults :
       /\ req' = Respond(AfterPublish(req, result), 200, "Verification email sent successfully")
       /\ mailbox' = IF result = "ok"
                       THEN Deliver("resendVerificationEmail", req.minted, req.mintedAt)
                       ELSE mailbox
  /\ UNCHANGED <<now, dir, tok, vres, client, env, proc, parked, secretManager>>

(***************************************************************************)
(* requestAccountReactivation, reactivateAccount                           *)
(***************************************************************************)
requestAccountReactivation ==
  /\ CanStart
  /\ \E email \in Emails \cup {Absent} :
       LET r == [NewReq("requestAccountReactivation") EXCEPT !.email = email]
       IN req' = IF email = Absent
                   THEN Respond(r, 400, "Email is required")
                   ELSE [r EXCEPT !.pc = "getUser"]
  /\ UNCHANGED <<now, dir, mailbox, tok, vres, client, env, proc, parked, secretManager>>

requestAccountReactivationGotUser ==
  /\ Awaiting("getUser", "requestAccountReactivation")
  /\ \E answer \in FindAnswers(req.email) :
       LET user == getUserByEmail(answer)
           r == [req EXCEPT !.user = user, !.lookups = @ + 1, !.dirStatus = answer.status]
       IN req' = IF user = Null THEN Respond(r, 404, "User not found")
                 ELSE IF Truthy(user.isActive)
                   THEN Respond(r, 400, "Account is already active.")
                 ELSE [r EXCEPT !.pc = "publish",
                                !.topic = "auth.account.reactivation.requested",
                                !.minted = signToken(EmailClaims(req.email), ResetTtl, now),
                                !.mintedAt = now]
  /\ UNCHANGED <<now, dir, mailbox, tok, vres, client, env, proc, parked, secretManager>>

requestAccountReactivationPublished ==
  /\ Awaiting("publish", "requestAccountReactivation")
  /\ \E result \in ProviderResults :
       /\ req' = Respond(AfterPublish(req, result), 200, "Reactivation email sent.")
       /\ mailbox' = IF result = "ok"
                       THEN Deliver("requestAccountReactivation", req.minted, req.mintedAt)
                       ELSE mailbox
  /\ UNCHANGED <<now, dir, tok, vres, client, env, proc, parked, secretManager>>

reactivateAccount ==
  /\ CanStart
  /\ \E token \in PresentableTokens :
       req' = CommitStart("reactivateAccount", token, "Token is required")
  /\ UNCHANGED <<now, dir, mailbox, tok, vres, client, env, proc, parked, secretManager>>

\* reactivateAccount without the early return for an active account
reactivateAccountGotUser_NoShortCircuit ==
  /\ Awaiting("getUser", "reactivateAccount")
  /\ \E answer \in FindAnswers(req.email) :
       LET user == getUserByEmail(answer)
           r == [req EXCEPT !.user = user, !.lookups = @ + 1, !.dirStatus = answer.status]
           userJwt == signToken(InternalClaims(user), InternalTtl, now)
       IN IF user = Null
            THEN req' = Respond(r, 404, "User not found") /\ mailbox' = mailbox
          ELSE /\ req' = [r EXCEPT !.pc = "patch", !.minted = userJwt, !.mintedAt = now,
                                      !.patch = [sent |-> TRUE, auth |-> userJwt,
                                                 body |-> [NoBody EXCEPT !.isActive = "true"]]]
               /\ mailbox' = Deliver("reactivateAccount", userJwt, now)
  /\ UNCHANGED <<now, dir, tok, vres, client, env, proc, parked, secretManager>>

reactivateAccountGotUser ==
  /\ Awaiting("getUser", "reactivateAccount")
  /\ \E answer \in FindAnswers(req.email) :
       LET user == getUserByEmail(answer)
           r == [req EXCEPT !.user = user, !.lookups = @ + 1, !.dirStatus = answer.status]
           userJwt == signToken(InternalClaims(user), InternalTtl, now)
       IN IF user = Null
            THEN req' = Respond(r, 404, "User not found") /\ mailbox' = mailbox
          ELSE IF Truthy(user.isActive)
            THEN req' = Respond(r, 200, "Account is already active.") /\ mailbox' = mailbox
          ELSE /\ req' = [r EXCEPT !.pc = "patch", !.minted = userJwt, !.mintedAt = now,
                                      !.patch = [sent |-> TRUE, auth |-> userJwt,
                                                 body |-> [NoBody EXCEPT !.isActive = "true"]]]
               /\ mailbox' = Deliver("reactivateAccount", userJwt, now)
  /\ UNCHANGED <<now, dir, tok, vres, client, env, proc, parked, secretManager>>

\* PATCH { isActive: true } with Authorization: Bearer userJwt
reactivateAccountPatched ==
  /\ Awaiting("patch", "reactivateAccount")
  /\ \E answer \in PatchAnswers :
       IF answer.status # 200
         THEN /\ req' = Respond([req EXCEPT !.dirStatus = answer.status],
                                 answer.status, Or(answer.error, "Account reactivation failed"))
              /\ dir' = dir
         ELSE /\ req' = Respond([req EXCEPT !.dirStatus = answer.status],
                                 200, "Account reactivated successfully.")
              /\ dir' = [dir EXCEPT ![req.user.email].isActive = "true"]
  /\ UNCHANGED <<now, mailbox, tok, vres, client, env, proc, parked, secretManager>>

(***************************************************************************)
(* register                                                                *)
(***************************************************************************)
\* authValidator.validateRegistration: the four required fields are present
validateRegistration(email, password, firstName, lastName) ==
  email # Absent /\ password # Absent /\ firstName # Absent /\ lastName # Absent

\* what the User Directory may answer to POST api/users: a status, the text
\* of its body and the status codes that text happens to spell out (an id, a
\* phone number, a port or a nested error code); status 0: fetch rejects
CreateAnswers(userData) ==
  (IF dir[userData.email] = Null
     THEN {[status |-> 201, text |-> Absent, mentions |-> {},
            body |-> [User(userData.email, userData.password,
                           Or(userData.isActive, "true"), userData.isEmailVerified)
                        EXCEPT !.firstName = userData.firstName,
                               !.lastName = userData.lastName,
                               !.roles = userData.roles]]}
     ELSE {[status |-> 409, text |-> "HTTP 409: email already registered",
            mentions |-> {}, body |-> Null]})
  \cup {[status |-> 400, text |-> "HTTP 400: password too weak", mentions |-> {}, body |-> Null],
        [status |-> 400, text |-> "HTTP 400: invalid phone 409-555-0100",
         mentions |-> {409}, body |-> Null],
        [status |-> 503, text |-> "HTTP 503: upstream timed out", mentions |-> {}, body |-> Null],
        [status |-> 503, text |-> "HTTP 503: connect ECONNREFUSED 10.0.0.7:4001",
         mentions |-> {400}, body |-> Null],
        [status |-> 0, text |-> "fetch failed", mentions |-> {}, body |-> Null]}

\* error.message?.includes(code) on `HTTP ${status}: ${errorText}`
MessageIncludes(answer, code) ==
  answer.status # 0 /\ (answer.status = code \/ code \in answer.mentions)

\* createUser that reports every failure of the call as a created record
createUser_SwallowsFailure(answer) ==
  IF answer.status = 201
    THEN [statusCode |-> 0, user |-> answer.body, message |-> Absent]
    ELSE [statusCode |-> 0, user |-> User("a@x.com", "pw1", "true", "false"),
          message |-> Absent]

\* createUser: the created record, or an error carrying a statusCode and
\* the message of the error invokeService threw
createUser(answer) ==
  IF answer.status = 201 THEN [statusCode |-> 0, user |-> answer.body, message |-> Absent]
  ELSE [statusCode |-> IF MessageIncludes(answer, 409) THEN 409
                       ELSE IF MessageIncludes(answer, 400) THEN 400 ELSE 503,
        user |-> Null, message |-> answer.text]

\* the switch on error.statusCode in the catch block of register
RegistrationError(statusCode, message) ==
  CASE statusCode = 503 -> "User service is temporarily unavailable. Please try again later."
    [] statusCode = 400 -> Or(message, "Registration data validation failed")
    [] statusCode = 409 -> "A user with this email already exists"

\* userData that lets the body decide the role and the flags
UserData_FromBody(body) ==
  [email |-> body.email, password |-> body.password, firstName |-> body.firstName,
   lastName |-> body.lastName, phoneNumber |-> body.phoneNumber,
   isEmailVerified |-> Or(body.isEmailVerified, "false"),
   roles |-> IF body.roles # NoRoles THEN body.roles ELSE {"customer"},
   isActive |-> body.isActive]

\* userData: the five destructured fields, isEmailVerified: false and
\* roles: ['customer']
UserData(body) ==
  [email |-> body.email, password |-> body.password, firstName |-> body.firstName,
   lastName |-> body.lastName, phoneNumber |-> body.phoneNumber,
   isEmailVerified |-> "false", roles |-> {"customer"}, isActive |-> Absent]

\* a registration arrives with one of the bodies
registerOn(bodies) ==
  /\ CanStart
  /\ \E body \in bodies :
       LET r == [NewReq("register") EXCEPT !.email = body.email,
                                           !.password = body.password,
                                           !.body = body]
       IN req' = IF ~validateRegistration(body.email, body.password,
                                          body.firstName, body.lastName)
                   THEN Respond(r, 400, "Missing required fields")
                   ELSE [r EXCEPT !.pc = "createUser"]
  /\ UNCHANGED <<now, dir, mailbox, tok, vres, client, env, proc, parked, secretManager>>

\* the bodies of the workflows: names given, email and password given or not
RegisterBodies ==
  {RegistrationBody(email, password, "A", "B") :
     email \in Emails \cup {Absent}, password \in {"pw1", Absent}}

register == registerOn(RegisterBodies)

\* the directory stores the record exactly when it answers 201
registerCreated ==
  /\ Awaiting("createUser", "register")
  /\ LET userData == UserData(req.body)
     IN \E answer \in CreateAnswers(userData) :
          LET created == createUser(answer)
              r == [req EXCEPT !.dirStatus = answer.status, !.userData = userData]
          IN /\ req' = IF created.statusCode # 0
                         THEN Respond(r, created.statusCode,
                                      RegistrationError(created.statusCode, created.message))
                         ELSE [r EXCEPT !.pc = "publish", !.user = created.user,
                                        !.topic = "auth.user.registered",
                                        !.minted = signToken(EmailClaims(req.email), VerifyTtl, now),
                                        !.mintedAt = now]
             /\ dir' = IF answer.status = 201
                         THEN [dir EXCEPT ![req.email] = answer.body]
                         ELSE dir
  /\ UNCHANGED <<now, mailbox, tok, vres, client, env, proc, parked, secretManager>>

\* res.status(201).json({ message, requiresVerification: true, user })
Registered(r) ==
  [r EXCEPT !.pc = "done",
            !.resp = [NoResp EXCEPT
                        !.status = 201,
                        !.message = "Registration successful, please verify your email.",
                        !.requiresVerification = TRUE,
                        !.user = Profile(r.user)]]

\* both publications sit in one try block: a rejection of the first await
\* would skip the second and go to the catch, which logs and falls through
registerPublished ==
  /\ Awaiting("publish", "register")
  /\ req.topic = "auth.user.registered"
  /\ \E result \in ProviderResults :
       LET r == AfterPublish(req, result)
       IN req' = IF r.pub[Len(r.pub)].settled = "rejected"
                   THEN Registered(r)
                   ELSE [r EXCEPT !.topic = "auth.email.verification.requested"]
  /\ UNCHANGED <<now, dir, mailbox, tok, vres, client, env, proc, parked, secretManager>>

registerPublishedVerification ==
  /\ Awaiting("publish", "register")
  /\ req.topic = "auth.email.verification.requested"
  /\ \E result \in ProviderResults :
       /\ req' = Registered(AfterPublish(req, result))
       /\ mailbox' = IF result = "ok"
                       THEN Deliver("register", req.minted, req.mintedAt)
                       ELSE mailbox
  /\ UNCHANGED <<now, dir, tok, vres, client, env, proc, parked, secretManager>>

\* the clock moves on to a later sampled instant
Tick ==
  /\ \E t \in Instants : t > now /\ now' = t
  /\ UNCHANGED <<dir, req, mailbox, tok, vres, client, env, proc, parked, secretManager>>

(***************************************************************************)
(* An upstream call that never answers                                     *)
(***************************************************************************)
\* fetch and publishEvent are awaited without a timeout or an abort signal:
\* nothing resumes the handler when the upstream stays silent
Hang ==
  /\ req.pc \in {"getUser", "createUser", "patch", "publish"}
  /\ ~req.hung
  /\ req' = [req EXCEPT !.hung = TRUE]
  /\ UNCHANGED <<now, dir, mailbox, tok, vres, client, env, proc, parked, secretManager>>

(***************************************************************************)
(* Specifications                                                          *)
(***************************************************************************)
Init ==
  /\ now = 0
  /\ dir \in [Emails -> {Null} \cup
                {User("a@x.com", "pw1", isActive, isEmailVerified) :
                   isActive \in {"true", "false", Absent},
                   isEmailVerified \in {"true", "false"}}]
  /\ req = Idle
  /\ mailbox = NoMail
  /\ tok = NoTok
  /\ vres = NoVres
  /\ client = NoClient
  /\ env = ConfiguredEnv
  /\ proc = Serving
  /\ parked = Idle
  /\ secretManager = NotLoaded

Starts ==
  \/ login
  \/ forgotPassword
  \/ resetPassword
  \/ verifyEmail
  \/ resendVerificationEmail
  \/ requestAccountReactivation
  \/ reactivateAccount
  \/ register

\* the steps a handler takes when the call it awaits settles
Resumes ==
  \/ loginGotUser
  \/ loginPublished
  \/ forgotPasswordGotUser
  \/ forgotPasswordPublished
  \/ resetPasswordGotUser
  \/ resetPasswordPatched
  \/ resetPasswordPublished
  \/ verifyEmailGotUser
  \/ verifyEmailPatched
  \/ resendVerificationEmailGotUser
  \/ resendVerificationEmailPublished
  \/ requestAccountReactivationGotUser
  \/ requestAccountReactivationPublished
  \/ reactivateAccountGotUser
  \/ reactivateAccountPatched
  \/ registerCreated
  \/ registerPublished
  \/ registerPublishedVerification

Next == Starts \/ Resumes \/ Hang \/ Tick

Spec == Init /\ [][Next]_vars

\* an upstream that answers is answered for; one that hangs is not
FairSpec == Spec /\ WF_vars(Resumes)

TokenInit ==
  /\ now = 0
  /\ dir = [e \in Emails |-> Null]
  /\ req = Idle
  /\ mailbox = NoMail
  /\ tok = NoTok
  /\ vres = NoVres
  /\ client = NoClient
  /\ env = ConfiguredEnv
  /\ proc = Serving
  /\ parked = Idle
  /\ secretManager = NotLoaded

TSign ==
  /\ \E claims \in CallerClaims, expiresIn \in CallerTtls :
       tok' = [origin |-> "signed", token |-> signToken(claims, expiresIn, now),
               claims |-> claims, expiresIn |-> expiresIn, at |-> now]
  /\ vres' = NoVres
  /\ UNCHANGED <<now, dir, req, mailbox, client, env, proc, parked, secretManager>>

TPresent ==
  /\ \E t \in ForeignTokens :
       tok' = [NoTok EXCEPT !.origin = "foreign", !.token = t]
  /\ vres' = NoVres
  /\ UNCHANGED <<now, dir, req, mailbox, client, env, proc, parked, secretManager>>

TVerify ==
  /\ tok.origin # "none"
  /\ vres' = [done |-> TRUE, at |-> now, out |-> verifyToken(tok.token, now)]
  /\ UNCHANGED <<now, dir, req, mailbox, tok, client, env, proc, parked, secretManager>>

TokenNext == Tick \/ TSign \/ TPresent \/ TVerify

TokenSpec == TokenInit /\ [][TokenNext]_vars

(***************************************************************************)
(* The Authorization Guard                                                 *)
(***************************************************************************)
\* parseInt(value, 10) of the JWT_EXPIRATION strings in use
parseInt(value) ==
  CASE value = "3600" -> JwtExpiration
    [] value = "900" -> 900

\* getJwtConfig() on the environment e: the JWT_* variables or their defaults
JwtConfigOf(e) ==
  [secret |-> e.JWT_SECRET,
   expiration |-> parseInt(Or(e.JWT_EXPIRATION, "3600")),
   issuer |-> Or(e.JWT_ISSUER, JwtIssuer),
   audience |-> Or(e.JWT_AUDIENCE, JwtAudience)]

\* a guard whose cache holds the built-in issuer and audience
GuardConfig_Defaults(p, e) ==
  [JwtConfigOf(e) EXCEPT !.issuer = JwtIssuer, !.audience = JwtAudience]

\* the guard's getCachedJwtConfig: _jwtConfigCache, filled on the first call
GuardConfig(p, e) ==
  IF p.guardCache = Null THEN JwtConfigOf(e) ELSE p.guardCache

\* the token the guard reads: authorization.split(' ')[1] when the header
\* starts with 'Bearer', else req.cookies.token, else undefined
ExtractToken(header, cookies) ==
  IF header.scheme = "Bearer" THEN header.token
  ELSE IF cookies # MissingToken THEN cookies
  ELSE MissingToken

\* the message of the error jwt.verify throws
JwtMessage(token, secret, options, t) ==
  IF ~token.wellformed THEN "jwt malformed"
  ELSE IF token.key # secret THEN "invalid signature"
  ELSE IF token.payload.exp # NoTime /\ t >= token.payload.exp THEN "jwt expired"
  ELSE IF token.payload.aud # options.audience THEN "jwt audience invalid"
  ELSE IF token.payload.iss # options.issuer THEN "jwt issuer invalid"
  ELSE Absent

\* req.user as the guard builds it from the decoded claims
Identity(decoded) ==
  [id |-> decoded.sub, email |-> decoded.email, name |-> decoded.name,
   roles |-> IF decoded.roles # NoRoles THEN decoded.roles ELSE {},
   emailVerified |-> IF Truthy(decoded.emailVerified) THEN "true" ELSE "false"]

\* a guard that reports every failed verification as the same 401
VerifyAndAttach_ErasesReason(token, jwtConfig, t) ==
  LET options == [issuer |-> jwtConfig.issuer, audience |-> jwtConfig.audience]
      v == JwtVerify(token, jwtConfig.secret, options, t)
  IN IF token = MissingToken \/ v.err # "none"
       THEN [err |-> ErrorResponse("Not authorized to access this route", 401),
             identity |-> Null]
     ELSE IF v.payload.sub = Absent \/ v.payload.iss = Absent \/ v.payload.aud = Absent
       THEN [err |-> [NoError EXCEPT !.name = "Error", !.message = "Invalid token structure"],
             identity |-> Null]
     ELSE [err |-> NoError, identity |-> Identity(v.payload)]

\* a guard that attaches an identity whatever claims the token carries
VerifyAndAttach_NoClaimCheck(token, jwtConfig, t) ==
  LET options == [issuer |-> jwtConfig.issuer, audience |-> jwtConfig.audience]
      v == JwtVerify(token, jwtConfig.secret, options, t)
  IN IF token = MissingToken
       THEN [err |-> ErrorResponse("Not authorized to access this route", 401),
             identity |-> Null]
     ELSE IF v.err # "none"
       THEN [err |-> [NoError EXCEPT !.name = v.err,
                                     !.message = JwtMessage(token, jwtConfig.secret, options, t)],
             identity |-> Null]
     ELSE [err |-> NoError, identity |-> Identity(v.payload)]

\* a guard that takes the id claim where there is no sub
VerifyAndAttach_IdForSub(token, jwtConfig, t) ==
  LET options == [issuer |-> jwtConfig.issuer, audience |-> jwtConfig.audience]
      v == JwtVerify(token, jwtConfig.secret, options, t)
  IN IF token = MissingToken
       THEN [err |-> ErrorResponse("Not authorized to access this route", 401),
             identity |-> Null]
     ELSE IF v.err # "none"
       THEN [err |-> [NoError EXCEPT !.name = v.err,
                                     !.message = JwtMessage(token, jwtConfig.secret, options, t)],
             identity |-> Null]
     ELSE IF (v.payload.sub = Absent /\ v.payload.id = Absent)
               \/ v.payload.iss = Absent \/ v.payload.aud = Absent
       THEN [err |-> [NoError EXCEPT !.name = "Error", !.message = "Invalid token structure"],
             identity |-> Null]
     ELSE [err |-> NoError,
           identity |-> [Identity(v.payload) EXCEPT !.id = Or(v.payload.sub, v.payload.id)]]

\* a guard that keeps a list of revoked tokens: the one the cookie jar lost
VerifyAndAttach_Revokes(token, jwtConfig, t) ==
  LET options == [issuer |-> jwtConfig.issuer, audience |-> jwtConfig.audience]
      v == JwtVerify(token, jwtConfig.secret, options, t)
  IN IF token = MissingToken \/ (token = client.session /\ client.jar = MissingToken)
       THEN [err |-> ErrorResponse("Not authorized to access this route", 401),
             identity |-> Null]
     ELSE IF v.err # "none"
       THEN [err |-> [NoError EXCEPT !.name = v.err,
                                     !.message = JwtMessage(token, jwtConfig.secret, options, t)],
             identity |-> Null]
     ELSE IF v.payload.sub = Absent \/ v.payload.iss = Absent \/ v.payload.aud = Absent
       THEN [err |-> [NoError EXCEPT !.name = "Error", !.message = "Invalid token structure"],
             identity |-> Null]
     ELSE [err |-> NoError, identity |-> Identity(v.payload)]

\* authMiddleware after the extraction: no token is an ErrorResponse 401;
\* jwt.verify's own error goes to next() as thrown; claims without sub, iss
\* or aud are an Error; otherwise req.user is set
VerifyAndAttach(token, jwtConfig, t) ==
  LET options == [issuer |-> jwtConfig.issuer, audience |-> jwtConfig.audience]
      v == JwtVerify(token, jwtConfig.secret, options, t)
  IN IF token = MissingToken
       THEN [err |-> ErrorResponse("Not authorized to access this route", 401),
             identity |-> Null]
     ELSE IF v.err # "none"
       THEN [err |-> [NoError EXCEPT !.name = v.err,
                                     !.message = JwtMessage(token, jwtConfig.secret, options, t)],
             identity |-> Null]
     ELSE IF v.payload.sub = Absent \/ v.payload.iss = Absent \/ v.payload.aud = Absent
       THEN [err |-> [NoError EXCEPT !.name = "Error", !.message = "Invalid token structure"],
             identity |-> Null]
     ELSE [err |-> NoError, identity |-> Identity(v.payload)]

\* authorizeRoles that compares role names without regard to case
HasRequiredRole_IgnoresCase(roles, user) ==
  LET Lower(role) == IF role = "Admin" THEN "admin" ELSE role
  IN /\ user # Null
     /\ user.roles # NoRoles
     /\ \E role \in roles : \E held \in user.roles : Lower(role) = Lower(held)

\* authorizeRoles(...roles): req.user && roles.some(role => req.user.roles?.includes(role))
HasRequiredRole(roles, user) ==
  /\ user # Null
  /\ user.roles # NoRoles
  /\ \E role \in roles : role \in user.roles

\* the centralized error handler: the status and message of the response.
\* A typed failure carries its status; a signature, expiry or claim failure
\* of the guard's token is InvalidToken, 401; anything else is 500
errorHandler(err) ==
  [status |-> IF err.name = "ErrorResponse" THEN err.statusCode
              ELSE IF err.name \in {"TokenExpiredError", "JsonWebTokenError"} THEN 401
              ELSE IF err.message = "Invalid token structure" THEN 401
              ELSE 500,
   message |-> err.message]

\* next(err): the request ends with what the error handler makes of err
Fail(r, err) ==
  [r EXCEPT !.pc = "done", !.err = err,
            !.resp = [NoResp EXCEPT !.status = errorHandler(err).status,
                                    !.message = errorHandler(err).message]]

(***************************************************************************)
(* The routes behind the guard, and logout                                 *)
(***************************************************************************)
GuardedRoutes == {"changePassword", "verify", "me", "deleteAccount", "adminDeleteUser"}

\* admin routes mounted without their role guard
RequiredRoles_AdminOpen(route) ==
  CASE route = "me" -> {"customer", "admin"}
    [] OTHER -> NoRoles

\* the authorizeRoles(...) a route mounts after authMiddleware, if any
RequiredRoles(route) ==
  CASE route = "me" -> {"customer", "admin"}
    [] route = "adminDeleteUser" -> {"admin"}
    [] OTHER -> NoRoles

\* tokens a caller can put into a header or a cookie: the session token it
\* kept, the same under a foreign signature, the token that last left the
\* service (a purpose or internal token), a string that is no JWT
GuardTokens ==
  {Malformed}
  \cup (IF client.session = MissingToken THEN {}
        ELSE {client.session, [client.session EXCEPT !.key = OtherSecret]})
  \cup (IF mailbox.by = "none" THEN {} ELSE {mailbox.token})

Headers == {NoHeader, Bearer(MissingToken)} \cup {Bearer(t) : t \in GuardTokens}

Cookies == {MissingToken, Malformed, client.jar}

\* the caller keeps the token of a successful login response and its
\* browser stores the token cookie
keepSession ==
  /\ req.handler = "login" /\ req.pc = "done" /\ req.resp.status = 200
  /\ client' = [session |-> req.resp.token, jar |-> req.cookie.value]
  /\ client' # client
  /\ UNCHANGED <<now, dir, req, mailbox, tok, vres, env, proc, parked, secretManager>>

\* a logout that announces itself on the event bus
logout_Publishes ==
  /\ CanStart
  /\ \E header \in {NoHeader, Bearer(client.session)}, cookies \in {client.jar} :
       req' = Respond(AfterPublish([NewReq("logout") EXCEPT !.header = header,
                                                            !.cookies = cookies,
                                                            !.topic = "auth.logout",
                                                            !.ran = <<"logout">>], "ok"),
                      200, "Logged out successfully")
  /\ client' = [client EXCEPT !.jar = MissingToken]
  /\ UNCHANGED <<now, dir, mailbox, tok, vres, env, proc, parked, secretManager>>

\* logout: res.clearCookie('token'), 200; the route mounts no guard
logout ==
  /\ CanStart
  /\ \E header \in {NoHeader, Bearer(client.session)}, cookies \in {client.jar} :
       req' = Respond([NewReq("logout") EXCEPT !.header = header, !.cookies = cookies,
                                               !.ran = <<"logout">>],
                      200, "Logged out successfully")
  /\ client' = [client EXCEPT !.jar = MissingToken]
  /\ UNCHANGED <<now, dir, mailbox, tok, vres, env, proc, parked, secretManager>>

\* a request to one of the routes enters authMiddleware
authMiddlewareOn(routes, headers, jars) ==
  /\ CanStart
  /\ proc.phase = "serving"
  /\ \E route \in routes, header \in headers, cookies \in jars :
       LET r == [NewReq(route) EXCEPT !.header = header, !.cookies = cookies,
                                      !.required = RequiredRoles(route),
                                      !.ran = <<"authMiddleware">>]
           token == ExtractToken(header, cookies)
           jwtConfig == GuardConfig(proc, env)
           g == VerifyAndAttach(token, jwtConfig, now)
       IN /\ req' = IF g.err # NoError THEN Fail(r, g.err)
                    ELSE [r EXCEPT !.identity = g.identity,
                                   !.pc = IF r.required # NoRoles
                                            THEN "authorizeRoles" ELSE "handler"]
          /\ proc' = IF token = MissingToken THEN proc
                     ELSE [proc EXCEPT !.guardCache = jwtConfig]
  /\ UNCHANGED <<now, dir, mailbox, tok, vres, client, env, parked, secretManager>>

\* a request to a guarded route, with what a caller can put into it
authMiddleware == authMiddlewareOn(GuardedRoutes, Headers, Cookies)

\* the middleware authorizeRoles(...roles) returned for the route
authorizeRoles ==
  /\ req.pc = "authorizeRoles"
  /\ LET r == [req EXCEPT !.ran = Append(@, "authorizeRoles")]
     IN req' = IF ~HasRequiredRole(req.required, req.identity)
                 THEN Fail(r, ErrorResponse("Forbidden: insufficient role", 403))
                 ELSE [r EXCEPT !.pc = "handler"]
  /\ UNCHANGED <<now, dir, mailbox, tok, vres, client, env, proc, parked, secretManager>>

\* the controller of the route is invoked
Enter(handler) ==
  /\ req.pc = "handler"
  /\ req.handler = handler

Ran(r) == [r EXCEPT !.ran = Append(@, r.handler)]

\* res.json({ user: req.user })
me ==
  /\ Enter("me")
  /\ req' = [Ran(req) EXCEPT !.pc = "done",
                             !.resp = [NoResp EXCEPT !.status = 200, !.user = req.identity]]
  /\ UNCHANGED <<now, dir, mailbox, tok, vres, client, env, proc, parked, secretManager>>

\* res.json({ valid: true, userId, email, roles })
verify ==
  /\ Enter("verify")
  /\ req' = [Ran(req) EXCEPT !.pc = "done",
                             !.resp = [NoResp EXCEPT
                                         !.status = 200,
                                         !.user = [id |-> req.identity.id,
                                                   email |-> req.identity.email,
                                                   roles |-> req.identity.roles]]]
  /\ UNCHANGED <<now, dir, mailbox, tok, vres, client, env, proc, parked, secretManager>>

\* authValidator.validatePasswordChange: both given and not the same
validatePasswordChange(oldPassword, newPassword) ==
  IF oldPassword = Absent \/ newPassword = Absent
    THEN [valid |-> FALSE, error |-> "Old password and new password are required"]
  ELSE IF oldPassword = newPassword
    THEN [valid |-> FALSE, error |-> "New password must be different from old password"]
  ELSE [valid |-> TRUE, error |-> Absent]

\* authValidator.isValidPassword: the strength rules
isValidPassword(password) ==
  IF password = "weak"
    THEN [valid |-> FALSE, error |-> "Password does not meet the requirements"]
    ELSE [valid |-> TRUE, error |-> Absent]

\* the JWT changePassword forwards: the bearer of the header, else the cookie
ForwardedToken(header, cookies) ==
  IF header.scheme = "Bearer" /\ header.token # MissingToken THEN header.token
  ELSE IF cookies # MissingToken THEN cookies
  ELSE MissingToken

\* what the directory answers to the PATCH of the account named by email
PatchAnswersFor(email) ==
  IF email \in DOMAIN dir /\ dir[email] # Null THEN PatchAnswers
  ELSE {[status |-> 404, error |-> "User not found"], [status |-> 503, error |-> Absent]}

\* the oldPassword of a request body: the account's password, a string that
\* is no account's password, or none
OldPasswords == {"pw1", "pw0", Absent}

\* changePassword that hands the old password on for the directory to check
changePassword_ForwardsOld ==
  /\ Enter("changePassword")
  /\ \E oldPassword \in OldPasswords, newPassword \in {"pw1", "pw2", "weak", Absent} :
       LET r == [Ran(req) EXCEPT !.oldPassword = oldPassword, !.password = newPassword]
           validation == validatePasswordChange(oldPassword, newPassword)
           passwordValidation == isValidPassword(newPassword)
           jwtToken == ForwardedToken(req.header, req.cookies)
       IN req' = IF req.identity = Null \/ req.identity.id = Absent
                   THEN Respond(r, 401, "Unauthorized")
                 ELSE IF ~validation.valid THEN Respond(r, 400, validation.error)
                 ELSE IF ~passwordValidation.valid
                   THEN Respond(r, 400, passwordValidation.error)
                 ELSE IF jwtToken = MissingToken THEN Respond(r, 401, "JWT missing")
                 ELSE [r EXCEPT !.pc = "patch",
                                !.patch = [sent |-> TRUE, auth |-> jwtToken,
                                           body |-> [NoBody EXCEPT !.password = newPassword,
                                                                   !.oldPassword = oldPassword]]]
  /\ UNCHANGED <<now, dir, mailbox, tok, vres, client, env, proc, parked, secretManager>>

\* changePassword that validates only after it has forwarded the request
changePassword_ForwardsFirst ==
  /\ Enter("changePassword")
  /\ \E oldPassword \in OldPasswords, newPassword \in {"pw1", "pw2", "weak", Absent} :
       LET r == [Ran(req) EXCEPT !.oldPassword = oldPassword, !.password = newPassword]
           jwtToken == ForwardedToken(req.header, req.cookies)
       IN req' = [r EXCEPT !.pc = "patch",
                           !.patch = [sent |-> TRUE, auth |-> jwtToken,
                                      body |-> [NoBody EXCEPT !.password = newPassword]]]
  /\ UNCHANGED <<now, dir, mailbox, tok, vres, client, env, proc, parked, secretManager>>

changePassword ==
  /\ Enter("changePassword")
  /\ \E oldPassword \in OldPasswords, newPassword \in {"pw1", "pw2", "weak", Absent} :
       LET r == [Ran(req) EXCEPT !.oldPassword = oldPassword, !.password = newPassword]
           validation == validatePasswordChange(oldPassword, newPassword)
           passwordValidation == isValidPassword(newPassword)
           jwtToken == ForwardedToken(req.header, req.cookies)
       IN req' = IF req.identity = Null \/ req.identity.id = Absent
                   THEN Respond(r, 401, "Unauthorized")
                 ELSE IF ~validation.valid THEN Respond(r, 400, validation.error)
                 ELSE IF ~passwordValidation.valid
                   THEN Respond(r, 400, passwordValidation.error)
                 ELSE IF jwtToken = MissingToken THEN Respond(r, 401, "JWT missing")
                 ELSE [r EXCEPT !.pc = "patch",
                                !.patch = [sent |-> TRUE, auth |-> jwtToken,
                                           body |-> [NoBody EXCEPT !.password = newPassword]]]
  /\ UNCHANGED <<now, dir, mailbox, tok, vres, client, env, proc, parked, secretManager>>

\* PATCH { password: newPassword } with Authorization: Bearer jwtToken
changePasswordPatched ==
  /\ Awaiting("patch", "changePassword")
  /\ \E answer \in PatchAnswersFor(req.identity.email) :
       LET r == [req EXCEPT !.dirStatus = answer.status]
       IN IF answer.status # 200
            THEN /\ req' = Respond(r, answer.status, Or(answer.error, "Password change failed"))
                 /\ dir' = dir
            ELSE /\ req' = Respond(r, 200, "Password changed successfully")
                 /\ dir' = [dir EXCEPT ![req.identity.email].password = Hash(req.password)]
  /\ UNCHANGED <<now, mailbox, tok, vres, client, env, proc, parked, secretManager>>

\* req.headers.authorization?.split(' ')[1] || req.cookies.token
DeleteToken(header, cookies) ==
  IF header.token # MissingToken THEN header.token ELSE cookies

\* the account a DELETE is about: the bearer's own, or the one with the id
DeleteTarget(del) ==
  IF del.id = "self" THEN del.auth.payload.email
  ELSE IF del.id = IdOf("a@x.com") THEN "a@x.com"
  ELSE Absent

\* what the directory answers to a DELETE: 204 when the bearer is a session
\* it accepts (an admin's for a delete by id) and the account exists, an
\* error status otherwise; or 503, or nothing (status 0)
DeleteAnswers(del) ==
  LET bearer == VerifyAndAttach(del.auth, getJwtConfig, now).identity
      email == DeleteTarget(del)
  IN (IF /\ bearer # Null
         /\ del.id # "self" => "admin" \in bearer.roles
         /\ email \in DOMAIN dir /\ dir[email] # Null
        THEN {[status |-> 204]}
        ELSE {[status |-> IF bearer = Null THEN 401
                          ELSE IF del.id # "self" /\ "admin" \notin bearer.roles THEN 403
                          ELSE 404]})
     \cup {[status |-> 503], [status |-> 0]}

\* deleteUserSelf / deleteUserById: true on a 2xx answer, false on any error
Deleted(answer) == answer.status = 204

deleteAccount ==
  /\ Enter("deleteAccount")
  /\ req' = [Ran(req) EXCEPT !.pc = "delete",
                             !.del = [sent |-> TRUE, id |-> "self",
                                      auth |-> DeleteToken(req.header, req.cookies)]]
  /\ UNCHANGED <<now, dir, mailbox, tok, vres, client, env, proc, parked, secretManager>>

adminDeleteUser ==
  /\ Enter("adminDeleteUser")
  /\ \E id \in {IdOf("a@x.com"), IdOf(Absent)} :
       req' = [Ran(req) EXCEPT !.pc = "delete",
                               !.del = [sent |-> TRUE, id |-> id,
                                        auth |-> DeleteToken(req.header, req.cookies)]]
  /\ UNCHANGED <<now, dir, mailbox, tok, vres, client, env, proc, parked, secretManager>>

\* both delete handlers resume alike: 204, or 404 'User not found'
deleteDone ==
  /\ req.pc = "delete" /\ ~req.hung
  /\ \E answer \in DeleteAnswers(req.del) :
       LET r == [req EXCEPT !.dirStatus = answer.status]
       IN IF Deleted(answer)
            THEN /\ req' = Respond(r, 204, Absent)
                 /\ dir' = [dir EXCEPT ![DeleteTarget(req.del)] = Null]
            ELSE /\ req' = Respond(r, 404, "User not found")
                 /\ dir' = dir
  /\ UNCHANGED <<now, mailbox, tok, vres, client, env, proc, parked, secretManager>>

\* the clock of a session: its start, and its end up to MaxSkew seconds before
SessionInstants == {0} \cup {JwtExpiration - d : d \in 0 .. MaxSkew}

SessionTick ==
  /\ \E t \in SessionInstants : t > now /\ now' = t
  /\ UNCHANGED <<dir, req, mailbox, tok, vres, client, env, proc, parked, secretManager>>

\* the accounts the guarded routes are exercised with: verified and able to
\* log in; a customer, an administrator, or a customer whose record carries
\* no isActive (login admits it, reactivation still writes it)
GuardAccounts ==
  {[User("a@x.com", "pw1", "true", "true") EXCEPT !.roles = roles] :
     roles \in {{"customer"}, {"admin"}}}
  \cup {User("a@x.com", "pw1", Absent, "true")}

GuardInit ==
  /\ now = 0
  /\ dir \in [Emails -> GuardAccounts]
  /\ req = Idle
  /\ mailbox = NoMail
  /\ tok = NoTok
  /\ vres = NoVres
  /\ client = NoClient
  /\ env = ConfiguredEnv
  /\ proc = Serving
  /\ parked = Idle
  /\ secretManager = NotLoaded

GuardNext ==
  \/ login
  \/ loginGotUser
  \/ loginPublished
  \/ keepSession
  \/ logout
  \/ authMiddleware
  \/ authorizeRoles
  \/ me
  \/ verify
  \/ changePassword
  \/ changePasswordPatched
  \/ deleteAccount
  \/ adminDeleteUser
  \/ deleteDone
  \/ resetPassword
  \/ resetPasswordGotUser
  \/ resetPasswordPatched
  \/ resetPasswordPublished
  \/ reactivateAccount
  \/ reactivateAccountGotUser
  \/ reactivateAccountPatched
  \/ SessionTick

GuardSpec == GuardInit /\ [][GuardNext]_vars

(***************************************************************************)
(* The role guard alone                                                    *)
(***************************************************************************)
\* role names as a token or a route may spell them
RoleNames == {"admin", "Admin", "customer"}

\* req.user as a request may carry it into the role guard: none, one whose
\* roles are undefined, or one holding any set of role names
RoleUsers ==
  {Null} \cup
  {[Identity([EmailClaims("a@x.com") EXCEPT !.sub = IdOf("a@x.com")]) EXCEPT !.roles = held] :
     held \in {NoRoles} \cup SUBSET RoleNames}

\* authorizeRoles(...required) is called with a request holding req.user
RoleInit ==
  /\ now = 0
  /\ dir = [e \in Emails |-> Null]
  /\ \E user \in RoleUsers, required \in SUBSET RoleNames :
       req = [NewReq("me") EXCEPT !.pc = "authorizeRoles", !.identity = user,
                                  !.required = required]
  /\ mailbox = NoMail
  /\ tok = NoTok
  /\ vres = NoVres
  /\ client = NoClient
  /\ env = ConfiguredEnv
  /\ proc = Serving
  /\ parked = Idle
  /\ secretManager = NotLoaded

RoleNext == authorizeRoles \/ me

RoleSpec == RoleInit /\ [][RoleNext]_vars

(***************************************************************************)
(* Startup: the configuration the process is started with                  *)
(***************************************************************************)
\* how many signToken / verifyToken calls of one process are followed
MaxReads == 2

ShortSecret == "short-secret"

\* a JavaScript string that is neither undefined nor empty
HasValue(value) == value # Absent /\ value # ""

\* process.env as an operator may set it before the process starts
ConfigEnvs ==
  [JWT_SECRET : {Absent, "", ShortSecret, JwtSecret},
   JWT_EXPIRATION : {Absent, "900"},
   JWT_ISSUER : {Absent, OtherIssuer},
   JWT_AUDIENCE : {Absent, OtherAudience}]

\* the process before app.js runs validateConfig
Booting == [Serving EXCEPT !.phase = "boot"]

\* validationRules.JWT_SECRET as validateConfig applies it: required: false,
\* an unset value is skipped, a set one must satisfy the validator
SecretRule(value) ==
  LET validator == ~HasValue(value) \/ Len(value) >= 32
  IN IF ~HasValue(value) THEN TRUE ELSE validator

\* app.js calls validateConfig() while it loads; when it throws, server.js
\* catches the failed import and exits
validateConfig ==
  /\ proc.phase = "boot"
  /\ proc' = [proc EXCEPT !.phase = IF SecretRule(env.JWT_SECRET)
                                     THEN "serving" ELSE "exited"]
  /\ UNCHANGED <<now, dir, req, mailbox, tok, vres, client, env, parked, secretManager>>

\* the claims of a session token
SessionClaims ==
  [EmailClaims("a@x.com") EXCEPT !.sub = IdOf("a@x.com"), !.roles = {"customer"},
                                 !.emailVerified = "true"]

\* signToken under a configuration: jwt.sign throws without a secret
signTokenWith(jwtConfig, payload, expiresIn, t) ==
  LET tokenExpiration == IF expiresIn # NoExpiresIn THEN expiresIn
                         ELSE Span(jwtConfig.expiration, "s")
      options == [expiresIn |-> tokenExpiration,
                  issuer |-> IF payload.iss = Absent THEN jwtConfig.issuer ELSE Absent,
                  audience |-> IF payload.aud = Absent THEN jwtConfig.audience ELSE Absent]
  IN IF ~HasValue(jwtConfig.secret) THEN Threw("Error")
     ELSE Returned(JwtSign(payload, jwtConfig.secret, options, t))

\* verifyToken under a configuration: every error of jwt.verify is null
verifyTokenWith(jwtConfig, token, t) ==
  LET r == JwtVerify(token, jwtConfig.secret,
                     [issuer |-> jwtConfig.issuer, audience |-> jwtConfig.audience], t)
  IN IF HasValue(jwtConfig.secret) /\ r.err = "none"
       THEN Returned(r.payload) ELSE Returned(Null)

\* the engine's getCachedJwtConfig counted: it calls getJwtConfig every time
EngineCall(op, threw, jwtConfig) ==
  [proc EXCEPT !.engineReads = @ + 1,
               !.last = [op |-> op, threw |-> threw, config |-> jwtConfig]]

\* a handler signs a session token; the caller keeps it if there is one
ConfigSign ==
  /\ proc.phase = "serving" /\ proc.engineReads < MaxReads
  /\ LET jwtConfig == JwtConfigOf(env)
         signed == signTokenWith(jwtConfig, SessionClaims, NoExpiresIn, now)
     IN /\ proc' = EngineCall("signToken", signed.threw, jwtConfig)
        /\ tok' = IF signed.threw THEN tok
                  ELSE [origin |-> "signed", token |-> signed.value,
                        claims |-> SessionClaims, expiresIn |-> NoExpiresIn, at |-> now]
  /\ vres' = NoVres
  /\ UNCHANGED <<now, dir, req, mailbox, client, env, parked, secretManager>>

\* a caller comes with a session token made elsewhere
ConfigPresent ==
  /\ proc.phase = "serving"
  /\ \E key \in {JwtSecret, OtherSecret}, iss \in {JwtIssuer, OtherIssuer},
        aud \in {JwtAudience, OtherAudience} :
       tok' = [NoTok EXCEPT
                 !.origin = "foreign",
                 !.token = JwtSign([SessionClaims EXCEPT !.iss = iss, !.aud = aud], key,
                                   [expiresIn |-> Span(JwtExpiration, "s"),
                                    issuer |-> Absent, audience |-> Absent], now)]
  /\ tok' # tok
  /\ vres' = NoVres
  /\ UNCHANGED <<now, dir, req, mailbox, client, env, proc, parked, secretManager>>

\* a handler verifies the token with the engine
ConfigVerify ==
  /\ proc.phase = "serving" /\ proc.engineReads < MaxReads
  /\ tok.origin # "none"
  /\ LET jwtConfig == JwtConfigOf(env)
     IN /\ proc' = EngineCall("verifyToken", FALSE, jwtConfig)
        /\ vres' = [done |-> TRUE, at |-> now,
                    out |-> verifyTokenWith(jwtConfig, tok.token, now)]
  /\ UNCHANGED <<now, dir, req, mailbox, tok, client, env, parked, secretManager>>

\* the token is sent to /verify as a bearer
ConfigGuard ==
  /\ tok.origin # "none"
  /\ authMiddlewareOn({"verify"}, {Bearer(tok.token)}, {MissingToken})

ConfigInit ==
  /\ now = 0
  /\ dir = [e \in Emails |-> Null]
  /\ req = Idle
  /\ mailbox = NoMail
  /\ tok = NoTok
  /\ vres = NoVres
  /\ client = NoClient
  /\ env \in ConfigEnvs
  /\ proc = Booting
  /\ parked = Idle
  /\ secretManager = NotLoaded

ConfigNext ==
  \/ validateConfig
  \/ ConfigSign
  \/ ConfigPresent
  \/ ConfigVerify
  \/ ConfigGuard
  \/ verify

ConfigSpec == ConfigInit /\ [][ConfigNext]_vars

(***************************************************************************)
(* register alone, with any request body                                   *)
(***************************************************************************)
\* bodies a client may post: each required field given or not, and roles,
\* isEmailVerified and isActive of the client's choosing
AnyBodies ==
  {[RegistrationBody(email, password, firstName, lastName)
      EXCEPT !.roles = roles, !.isEmailVerified = isEmailVerified,
             !.isActive = isActive] :
     email \in Emails \cup {Absent}, password \in {"pw1", Absent},
     firstName \in {"A", Absent}, lastName \in {"B", Absent},
     roles \in {NoRoles, {"admin"}, {"customer", "admin"}},
     isEmailVerified \in {Absent, "true"}, isActive \in {Absent, "false"}}

registerAny == registerOn(AnyBodies)

RegisterInit ==
  /\ now = 0
  /\ dir \in [Emails -> {Null, User("a@x.com", "pw2", "true", "true")}]
  /\ req = Idle
  /\ mailbox = NoMail
  /\ tok = NoTok
  /\ vres = NoVres
  /\ client = NoClient
  /\ env = ConfiguredEnv
  /\ proc = Serving
  /\ parked = Idle
  /\ secretManager = NotLoaded

RegisterNext ==
  \/ registerAny
  \/ registerCreated
  \/ registerPublished
  \/ registerPublishedVerification

RegisterSpec == RegisterInit /\ [][RegisterNext]_vars

(***************************************************************************)
(* Every route of the service, at one instant                              *)
(***************************************************************************)
\* no account, a verified customer, a verified administrator, or an account
\* neither verified nor active
RouterAccounts ==
  GuardAccounts \cup {Null, User("a@x.com", "pw1", "false", "false")}

RouterInit ==
  /\ now = 0
  /\ dir \in [Emails -> RouterAccounts]
  /\ req = Idle
  /\ mailbox = NoMail
  /\ tok = NoTok
  /\ vres = NoVres
  /\ client = NoClient
  /\ env = ConfiguredEnv
  /\ proc = Serving
  /\ parked = Idle
  /\ secretManager = NotLoaded

\* a caller of a guarded route sends what it kept of its login, as a bearer
\* or as the cookie
authMiddlewareKept ==
  authMiddlewareOn(GuardedRoutes, {NoHeader, Bearer(client.session)}, {client.jar})

\* a caller of a guarded route sends the token that last left the service:
\* the one of a link, of an internal PATCH, or of a login
authMiddlewareMailed ==
  /\ mailbox.by # "none"
  /\ authMiddlewareOn(GuardedRoutes, {Bearer(mailbox.token)}, {MissingToken})

\* the steps of the routes behind the guard, and of logout
Guards ==
  \/ keepSession
  \/ logout
  \/ authMiddlewareKept
  \/ authMiddlewareMailed
  \/ authorizeRoles
  \/ me
  \/ verify
  \/ changePassword
  \/ changePasswordPatched
  \/ deleteAccount
  \/ adminDeleteUser
  \/ deleteDone

RouterNext == Starts \/ Resumes \/ Guards

RouterSpec == RouterInit /\ [][RouterNext]_vars

(***************************************************************************)
(* The routes that forward the caller's token                              *)
(***************************************************************************)
ForwardingRoutes == {"changePassword", "deleteAccount", "adminDeleteUser"}

\* Authorization headers of any scheme: none, a bearer token, a bearer
\* without a token, Basic credentials
AnyHeaders ==
  {NoHeader, Bearer(MissingToken), Bearer(Malformed), Bearer(client.session),
   Basic(Malformed)}

authMiddlewareForwarding ==
  authMiddlewareOn(ForwardingRoutes, AnyHeaders, {MissingToken, client.jar})

ForwardInit ==
  /\ now = 0
  /\ dir \in [Emails -> GuardAccounts]
  /\ req = Idle
  /\ mailbox = NoMail
  /\ tok = NoTok
  /\ vres = NoVres
  /\ client = NoClient
  /\ env = ConfiguredEnv
  /\ proc = Serving
  /\ parked = Idle
  /\ secretManager = NotLoaded

ForwardNext ==
  \/ login
  \/ loginGotUser
  \/ loginPublished
  \/ keepSession
  \/ authMiddlewareForwarding
  \/ authorizeRoles
  \/ changePassword
  \/ changePasswordPatched
  \/ deleteAccount
  \/ adminDeleteUser
  \/ deleteDone

ForwardSpec == ForwardInit /\ [][ForwardNext]_vars

(***************************************************************************)
(* Properties of login                                                     *)
(***************************************************************************)
LoginDone == req.handler = "login" /\ req.pc = "done"

Outcome(status, message) == req.resp.status = status /\ req.resp.message = message

WrongPassword == req.user # Null /\ req.user.password # Hash(req.password)

AllChecksPassed ==
  /\ req.email # Absent /\ req.password # Absent
  /\ req.user # Null
  /\ req.user.isActive # "false"
  /\ req.user.isEmailVerified = "true"
  /\ req.user.password = Hash(req.password)

\* C1: a login ends with the outcome of the first failing check, in the order
\* missing fields (400, before any lookup), no account (401), deactivated
\* (403), email not verified (403), password mismatch (401).
C1_LoginCheckOrder ==
  LoginDone =>
    IF req.email = Absent \/ req.password = Absent
      THEN Outcome(400, "Email and password are required") /\ req.lookups = 0
    ELSE IF req.user = Null THEN Outcome(401, "Invalid credentials")
    ELSE IF req.user.isActive = "false" THEN Outcome(403, "Account is deactivated")
    ELSE IF req.user.isEmailVerified # "true"
      THEN Outcome(403, "Please verify your email before logging in")
    ELSE IF req.user.password # Hash(req.password) THEN Outcome(401, "Invalid credentials")
    ELSE req.resp.status = 200

\* a deactivated, unverified account with a wrong password is told it is deactivated
C1_Witness ==
  /\ LoginDone /\ WrongPassword
  /\ req.user.isActive = "false" /\ req.user.isEmailVerified = "false"
  /\ Outcome(403, "Account is deactivated")

\* C2: a login that fails mints no token, sets no cookie and publishes no
\* event; a token, a cookie or an auth.login publication exists only once all
\* four checks have passed.
C2_NoTokenOnFailure ==
  req.handler = "login" =>
    /\ (req.pc = "done" /\ req.resp.status # 200) =>
         /\ req.minted = Malformed /\ req.cookie = NoCookie /\ req.pub = <<>>
         /\ req.resp.token = MissingToken
    /\ (req.minted # Malformed \/ req.cookie # NoCookie \/ req.pub # <<>>
           \/ req.resp.token # MissingToken)
         => AllChecksPassed

C2_Witness ==
  /\ LoginDone /\ req.resp.status = 200 /\ req.resp.token = req.minted
  /\ Len(req.pub) = 1 /\ req.pub[1].topic = "auth.login"

\* C3 as stated: a wrong password for an existing account is answered exactly
\* like an unknown email, whatever the state of the account.
C3_SameAsUnknownEmail ==
  (LoginDone /\ WrongPassword) =>
    Outcome(LoginCheck(Null, req.password).status, LoginCheck(Null, req.password).message)

\* C3 amended: a wrong password for an account that is neither deactivated nor
\* unverified is answered exactly like an unknown email.
C3_SameAsUnknownEmailWhenEligible ==
  (LoginDone /\ WrongPassword /\ req.user.isActive # "false"
     /\ req.user.isEmailVerified = "true") =>
    Outcome(LoginCheck(Null, req.password).status, LoginCheck(Null, req.password).message)

C3_Witness ==
  /\ LoginDone /\ WrongPassword /\ req.user.isActive = "true"
  /\ req.user.isEmailVerified = "true" /\ Outcome(401, "Invalid credentials")

\* C8: whenever login holds a session token, the cookie 'token' has been set
\* to that token, http-only, sameSite strict, with maxAge the token's lifetime
\* in milliseconds; the token in the response is the one in the cookie.
C8_TokenWithCookie ==
  req.handler = "login" =>
    /\ req.minted # Malformed =>
         /\ req.cookie.name = "token" /\ req.cookie.value = req.minted
         /\ req.cookie.httpOnly /\ req.cookie.sameSite = "strict"
         /\ req.cookie.maxAge = (req.minted.payload.exp - req.minted.payload.iat) * 1000
    /\ req.resp.token # MissingToken => req.cookie.value = req.resp.token

C8_Witness ==
  /\ LoginDone /\ req.resp.token # MissingToken
  /\ req.cookie.value = req.resp.token /\ req.cookie.maxAge = 3600000

(***************************************************************************)
(* Properties of the token engine                                          *)
(***************************************************************************)
\* right signature, configured issuer and audience, not yet expired at t
Genuine(token, t) ==
  /\ token.wellformed
  /\ token.key = JwtSecret
  /\ token.payload.iss = JwtIssuer
  /\ token.payload.aud = JwtAudience
  /\ t < token.payload.exp

\* C4: verifyToken never throws, and it returns claims exactly for the tokens
\* that are signed with the configured secret, carry the configured issuer
\* and audience, and are presented strictly before their exp; it returns
\* null for every other token.
C4_VerifyAcceptsOnlyGenuine ==
  vres.done =>
    /\ ~vres.out.threw
    /\ (vres.out.value # Null) <=> Genuine(tok.token, vres.at)

\* a token under the configured secret and issuer, unexpired, for another audience
C4_Witness ==
  /\ vres.done /\ tok.token.wellformed /\ tok.token.key = JwtSecret
  /\ tok.token.payload.iss = JwtIssuer /\ tok.token.payload.aud = OtherAudience
  /\ vres.at < tok.token.payload.exp
  /\ vres.out = Returned(Null)

\* the lifetime signToken is asked for: the ttl, or the configured default
TtlOf(expiresIn) ==
  IF expiresIn = NoExpiresIn THEN JwtExpiration
  ELSE expiresIn.n * (CASE expiresIn.unit = "m" -> 60
                        [] expiresIn.unit = "h" -> 3600
                        [] expiresIn.unit = "d" -> 86400)

\* the payload returned carries every claim the caller set
KeepsClaims(payload, claims) ==
  /\ payload # Null
  /\ payload.email = claims.email /\ payload.sub = claims.sub /\ payload.id = claims.id
  /\ payload.name = claims.name /\ payload.roles = claims.roles
  /\ payload.emailVerified = claims.emailVerified
  /\ claims.iss # Absent => payload.iss = claims.iss
  /\ claims.aud # Absent => payload.aud = claims.aud
  /\ claims.iat # NoTime => payload.iat = claims.iat

RoundTrip ==
  IF vres.at < tok.at + TtlOf(tok.expiresIn)
    THEN ~vres.out.threw /\ KeepsClaims(vres.out.value, tok.claims)
    ELSE vres.out = Returned(Null)

\* C5 as stated: for all claims and ttl (a missing ttl being the configured
\* default), verifyToken(signToken(claims, ttl)) returns the claims at every
\* time before the ttl has elapsed since signing and null from then on,
\* also when the caller pre-set iss or aud.
C5_RoundTripAnyClaims ==
  (vres.done /\ tok.origin = "signed") => RoundTrip

\* the claims leave issuer, audience and issued-at to signToken, or pre-set
\* them to the configured issuer and audience and to the signing time
ConfiguredClaims ==
  /\ tok.claims.iss \in {Absent, JwtIssuer}
  /\ tok.claims.aud \in {Absent, JwtAudience}
  /\ tok.claims.iat \in {NoTime, tok.at}

\* C5 amended: the round trip holds for claims whose pre-set iss and aud, if
\* any, are the configured issuer and audience and whose pre-set iat, if any,
\* is the signing time.
C5_RoundTripConfiguredClaims ==
  (vres.done /\ tok.origin = "signed" /\ ConfiguredClaims) => RoundTrip

\* pre-set iss and aud, no ttl: still accepted one second before the default expiry
C5_Witness ==
  /\ vres.done /\ tok.origin = "signed"
  /\ tok.claims.iss = JwtIssuer /\ tok.claims.aud = JwtAudience
  /\ tok.expiresIn = NoExpiresIn
  /\ vres.at = tok.at + 3599
  /\ KeepsClaims(vres.out.value, tok.claims)

(***************************************************************************)
(* Properties of the purpose tokens                                        *)
(***************************************************************************)
\* the tokens minted so far that still exist somewhere
KnownTokens ==
  (IF mailbox.by = "none" THEN {} ELSE {mailbox}) \cup
  (IF req.minted = Malformed THEN {}
   ELSE {[by |-> req.handler, token |-> req.minted, at |-> req.mintedAt]})

Accepted(token) == verifyToken(token, now).value # Null

\* C6: a token of forgotPassword or requestAccountReactivation minted at t is
\* accepted exactly while now < t + 3600, a token of register or
\* resendVerificationEmail exactly while now < t + 86400, and the internal
\* token of verifyEmail or reactivateAccount exactly while now < t + 900.
C6_PurposeLifetimes ==
  \A k \in KnownTokens :
    /\ k.by \in {"forgotPassword", "requestAccountReactivation"} =>
         (Accepted(k.token) <=> now < k.at + 3600)
    /\ k.by \in {"register", "resendVerificationEmail"} =>
         (Accepted(k.token) <=> now < k.at + 86400)
    /\ k.by \in {"verifyEmail", "reactivateAccount"} =>
         (Accepted(k.token) <=> now < k.at + 900)

\* a reset token at the very second its hour has elapsed
C6_Witness ==
  /\ mailbox.by = "forgotPassword"
  /\ now = mailbox.at + 3600
  /\ ~Accepted(mailbox.token)

CommitPhases == {"resetPassword", "verifyEmail", "reactivateAccount"}

\* the commit phase got past its verifyToken check
TokenAccepted ==
  /\ req.handler \in CommitPhases
  /\ req.pc \in {"getUser", "patch", "publish"} \/ (req.pc = "done" /\ req.lookups > 0)

\* the workflows whose token a commit phase is the second half of
MintersFor(handler) ==
  CASE handler = "resetPassword" -> {"forgotPassword"}
    [] handler = "verifyEmail" -> {"register", "resendVerificationEmail"}
    [] handler = "reactivateAccount" -> {"requestAccountReactivation"}

\* C7: a commit phase accepts only a token minted for its own workflow:
\* resetPassword only a token of forgotPassword, verifyEmail only a token of
\* register or resendVerificationEmail, reactivateAccount only a token of
\* requestAccountReactivation; never a session token or an internal token.
C7_SinglePurpose ==
  TokenAccepted => req.tokenBy \in MintersFor(req.handler)

(***************************************************************************)
(* Properties of event publication and of termination                      *)
(***************************************************************************)
Publishers ==
  {"login", "register", "forgotPassword", "resetPassword",
   "resendVerificationEmail", "requestAccountReactivation"}

\* the response of a workflow that reached its publication
SuccessOutcome(handler) ==
  CASE handler = "login" -> [status |-> 200, message |-> Absent]
    [] handler = "register" ->
         [status |-> 201, message |-> "Registration successful, please verify your email."]
    [] handler = "forgotPassword" -> [status |-> 200, message |-> "Password reset email sent"]
    [] handler = "resetPassword" -> [status |-> 200, message |-> "Password reset successful"]
    [] handler = "resendVerificationEmail" ->
         [status |-> 200, message |-> "Verification email sent successfully"]
    [] handler = "requestAccountReactivation" ->
         [status |-> 200, message |-> "Reactivation email sent."]

\* C9: publishEvent settles without rejecting whatever the provider does, and
\* the response of a workflow that published is the same whether the
\* provider succeeded, reported failure or threw.
C9_PublishNeverAltersOutcome ==
  /\ \A i \in DOMAIN req.pub : req.pub[i].settled = "resolved"
  /\ (req.pc = "done" /\ req.pub # <<>>) =>
       /\ req.handler \in Publishers
       /\ Outcome(SuccessOutcome(req.handler).status, SuccessOutcome(req.handler).message)
       /\ req.resp.token = (IF req.handler = "login" THEN req.minted ELSE MissingToken)
       /\ req.resp.user = (IF req.handler \in {"login", "register"}
                             THEN Profile(req.user) ELSE Null)

\* a registration whose first publication threw and whose second failed
C9_Witness ==
  /\ req.pc = "done" /\ req.handler = "register" /\ Len(req.pub) = 2
  /\ req.pub[1].result = "throws" /\ req.pub[2].result = "failed"
  /\ req.resp.status = 201

\* C10: every workflow invocation ends with a response, also when the
\* upstream call it awaits never answers.
C10_AlwaysResponds ==
  (req.pc \notin {"idle", "done"}) ~> (req.pc = "done")

(***************************************************************************)
(* Registration and its two events                                         *)
(***************************************************************************)
RegisterDone == req.handler = "register" /\ req.pc = "done"

RegistrationTopics == <<"auth.user.registered", "auth.email.verification.requested">>

Topics(pub) == [i \in DOMAIN pub |-> pub[i].topic]

\* the topics published so far and the one being published, in call order
TopicsCalled ==
  IF req.pc = "publish" THEN Append(Topics(req.pub), req.topic) ELSE Topics(req.pub)

\* C11: a registration answered 201 carries requiresVerification true and has
\* published auth.user.registered then auth.email.verification.requested and
\* nothing else; a publication or a verification token exists only once the
\* directory answered the creation with 201 and holds the account; when the
\* creation failed nothing was published and no token was minted.
C11_RegistrationEvents ==
  req.handler = "register" =>
    /\ (req.pc = "done" /\ req.resp.status = 201) =>
         /\ req.resp.requiresVerification
         /\ Topics(req.pub) = RegistrationTopics
    /\ (TopicsCalled # <<>> \/ req.minted # Malformed) =>
         /\ req.dirStatus = 201
         /\ dir[req.email] # Null
         /\ TopicsCalled = SubSeq(RegistrationTopics, 1, Len(TopicsCalled))
    /\ (req.pc = "done" /\ req.dirStatus # 201) =>
         /\ req.pub = <<>>
         /\ req.minted = Malformed
         /\ req.resp.status # 201

\* a registration answered 201 after both events reached the broker
C11_Witness ==
  /\ RegisterDone /\ req.resp.status = 201 /\ req.resp.requiresVerification
  /\ Len(req.pub) = 2 /\ req.pub[1].result = "ok" /\ req.pub[2].result = "ok"
  /\ mailbox.by = "register"

\* C12: once the first publication of a registration was attempted, whatever
\* its result, the second is attempted too; the failure of either leaves the
\* created account in the directory and the answer 201.
C12_PublicationsIndependent ==
  (req.handler = "register" /\ req.pub # <<>>) =>
    /\ \/ /\ req.pc = "publish" /\ Len(req.pub) = 1
          /\ req.topic = "auth.email.verification.requested"
       \/ /\ req.pc = "done" /\ Len(req.pub) = 2
          /\ Outcome(201, "Registration successful, please verify your email.")
    /\ Topics(req.pub) = SubSeq(RegistrationTopics, 1, Len(req.pub))
    /\ dir[req.email] = req.user

\* a registration whose first publication failed and whose second went out
C12_Witness ==
  /\ RegisterDone /\ Len(req.pub) = 2
  /\ req.pub[1].result = "failed" /\ req.pub[2].result = "ok"
  /\ req.resp.status = 201 /\ dir[req.email] = req.user

(***************************************************************************)
(* Classification of directory failures                                    *)
(***************************************************************************)
\* the status a failure of the directory is to surface as, by its status
ClassifyByStatus(status) ==
  CASE status = 409 -> 409
    [] status = 400 -> 400
    [] OTHER -> 503

\* C13: a registration whose directory create failed answers by the status
\* the directory returned alone: 409 for a 409, 400 with the directory's
\* message for a 400, 503 for every other status and for no answer at all,
\* whatever the text of the error body.
C13_ClassifiedByStatusOnly ==
  (RegisterDone /\ req.dirStatus \notin {NoStatus, 201}) =>
    /\ req.resp.status = ClassifyByStatus(req.dirStatus)
    /\ req.dirStatus = 409 => req.resp.message = "A user with this email already exists"
    /\ req.dirStatus \notin {400, 409} =>
         req.resp.message = "User service is temporarily unavailable. Please try again later."

\* the workflows of the model that look an account up or write to it
DirectoryCallers ==
  {"login", "forgotPassword", "resetPassword", "verifyEmail",
   "resendVerificationEmail", "requestAccountReactivation", "reactivateAccount"}

\* the directory answered with an error status, or not at all (status 0);
\* a 404 to a lookup is its answer that the account does not exist
DirectoryFailed == req.dirStatus \in {0, 400, 409, 503}

\* C14: a workflow whose directory call failed answers 400 for a 400, 409
\* for a 409 and 503 or 502 for any other failure or no answer; it never
\* answers 401 or 404 then.
C14_OutageNeverNotFound ==
  (req.handler \in DirectoryCallers /\ req.pc = "done" /\ DirectoryFailed) =>
    /\ req.resp.status \notin {401, 404}
    /\ req.dirStatus = 400 => req.resp.status = 400
    /\ req.dirStatus = 409 => req.resp.status = 409
    /\ req.dirStatus \notin {400, 409} => req.resp.status \in {502, 503}

(***************************************************************************)
(* The request phase of the password reset                                 *)
(***************************************************************************)
ForgotDone == req.handler = "forgotPassword" /\ req.pc = "done" /\ req.email # Absent

\* the token carries the email claim and the claims jwt.sign adds, no other
OnlyEmailClaim(token, email) ==
  /\ token.wellformed
  /\ token.payload.email = email
  /\ token.payload.sub = Absent /\ token.payload.id = Absent
  /\ token.payload.name = NoName /\ token.payload.roles = NoRoles
  /\ token.payload.emailVerified = Absent

C16_SameAnswerForUnknownEmail ==
  (ForgotDone /\ req.dirStatus \in {200, 404}) =>
    Outcome(200, "Password reset email sent")

(***************************************************************************)
(* Tokens the commit phases reject                                         *)
(***************************************************************************)
\* a step in which a commit phase takes a request
CommitStarts ==
  /\ CanStart
  /\ now' = now
  /\ req' # req
  /\ req'.handler \in CommitPhases

FailsVerification(token) ==
  token # MissingToken /\ verifyToken(token, now).value = Null

\* the request ended at once with the one answer for a rejected token
GenericRejection(r) ==
  /\ r.pc = "done"
  /\ r.resp = [NoResp EXCEPT !.status = 400, !.message = "Invalid or expired token"]
  /\ r.lookups = 0 /\ r.dirStatus = NoStatus /\ ~r.patch.sent
  /\ r.pub = <<>> /\ r.topic = Absent
  /\ r.minted = Malformed

\* C17: whenever resetPassword (given a new password), verifyEmail or
\* reactivateAccount is handed a token that verifyToken rejects at that
\* moment, for whatever cause, the request ends in that step with 400
\* 'Invalid or expired token' and nothing else in the response, without a
\* directory call, a publication or a change to the directory.
C17_UniformTokenFailure ==
  [][(/\ CommitStarts
      /\ FailsVerification(req'.token)
      /\ req'.handler = "resetPassword" => req'.password # Absent)
       => (GenericRejection(req') /\ dir' = dir /\ mailbox' = mailbox)]_vars

\* the token of the rejected request fails for nothing but its expiry
RejectedAsExpired(handler) ==
  /\ req.handler = handler /\ GenericRejection(req)
  /\ req.token.wellformed /\ req.token.key = JwtSecret
  /\ req.token.payload.iss = JwtIssuer /\ req.token.payload.aud = JwtAudience
  /\ now >= req.token.payload.exp

\* a reset token presented to resetPassword after its hour was rejected
C17_Witness ==
  RejectedAsExpired("resetPassword") /\ req.tokenBy = "forgotPassword"

(***************************************************************************)
(* The commit phase of the password reset                                  *)
(***************************************************************************)
\* the account a PATCH names to the directory: the id claim of its bearer
\* token (its body and its URL never carry one)
PatchTarget(patch) ==
  IF patch.auth.wellformed THEN patch.auth.payload.id ELSE Absent

\* the completion event is published exactly when the update succeeded, and
\* after it; a rejected update ends with the directory's status and no event
ResetEventIffUpdated ==
  req.handler = "resetPassword" =>
    /\ TopicsCalled # <<>> =>
         /\ req.patch.sent /\ req.dirStatus = 200
         /\ TopicsCalled = <<"auth.password.reset.completed">>
    /\ (req.pc = "done" /\ req.patch.sent /\ req.dirStatus = 200) =>
         /\ Topics(req.pub) = <<"auth.password.reset.completed">>
         /\ Outcome(200, "Password reset successful")
    /\ (req.pc = "done" /\ req.patch.sent /\ req.dirStatus # 200) =>
         /\ req.pub = <<>>
         /\ req.resp.status = req.dirStatus

\* the update carries the new password, isReset true and the account
ResetUpdateNamesAccount ==
  (req.handler = "resetPassword" /\ req.patch.sent) =>
    /\ req.patch.body = [NoBody EXCEPT !.newPassword = req.password, !.isReset = "true"]
    /\ PatchTarget(req.patch) = req.user.id

\* C18: resetPassword publishes auth.password.reset.completed if and only if
\* the directory update succeeded, and after it; a rejected update ends with
\* the directory's error and no event; the update sent carries the new
\* password, isReset true, and names the account the token's email resolved to.
C18_ResetCommit ==
  ResetEventIffUpdated /\ ResetUpdateNamesAccount

(***************************************************************************)
(* Verifying twice, and the request phases                                 *)
(***************************************************************************)
\* C19: a verifyEmail call whose lookup returns the account with
\* isEmailVerified true, as it is after an earlier call succeeded, ends with
\* 200 'Email already verified', mints no internal token, sends no PATCH and
\* leaves the directory's record as it found it.
C19_VerifyIdempotent ==
  (req.handler = "verifyEmail" /\ req.user # Null /\ Truthy(req.user.isEmailVerified)) =>
    /\ req.pc = "done"
    /\ Outcome(200, "Email already verified")
    /\ req.minted = Malformed
    /\ ~req.patch.sent
    /\ dir[req.email] = req.user

\* an earlier verifyEmail sent its PATCH and the directory set the flag; the
\* next verifyEmail, with the token that left the service last, is answered
\* 'Email already verified'
C19_Witness ==
  /\ mailbox.by = "verifyEmail"
  /\ req.handler = "verifyEmail" /\ req.pc = "done" /\ req.token = mailbox.token
  /\ req.user # Null /\ req.user.isEmailVerified = "true"
  /\ req.resp.message = "Email already verified"

RequestPhases == {"resendVerificationEmail", "requestAccountReactivation"}

\* the flag the request phase is about is already set on the account
FlagSet(handler, user) ==
  IF handler = "resendVerificationEmail"
    THEN user.isEmailVerified = "true"
    ELSE user.isActive = "true"

RequestTopic(handler) ==
  IF handler = "resendVerificationEmail"
    THEN "auth.email.verification.requested"
    ELSE "auth.account.reactivation.requested"

\* C20: resendVerificationEmail and requestAccountReactivation answer 404
\* when the lookup finds no account and 400 when isEmailVerified, resp.
\* isActive, is true, in both cases with no token minted and nothing
\* published; otherwise they answer 200 having minted one token that carries
\* the email only and published their request event once.
C20_RequestPhases ==
  req.handler \in RequestPhases =>
    /\ (req.pc = "done" /\ req.email # Absent /\ req.user = Null) =>
         /\ Outcome(404, "User not found")
         /\ req.minted = Malformed /\ req.pub = <<>>
    /\ (req.pc = "done" /\ req.user # Null /\ FlagSet(req.handler, req.user)) =>
         /\ Outcome(400, IF req.handler = "resendVerificationEmail"
                           THEN "Email is already verified"
                           ELSE "Account is already active.")
         /\ req.minted = Malformed /\ req.pub = <<>>
    /\ (req.pc = "done" /\ req.user # Null /\ ~FlagSet(req.handler, req.user)) =>
         /\ req.resp.status = 200
         /\ OnlyEmailClaim(req.minted, req.email)
         /\ Topics(req.pub) = <<RequestTopic(req.handler)>>
    /\ (req.minted # Malformed \/ TopicsCalled # <<>>) =>
         /\ req.user # Null /\ ~FlagSet(req.handler, req.user)
         /\ TopicsCalled = <<RequestTopic(req.handler)>>

\* a reactivation was requested for a deactivated account and its event went out
C20_Witness ==
  /\ req.handler = "requestAccountReactivation" /\ req.pc = "done"
  /\ req.user # Null /\ req.user.isActive = "false"
  /\ req.resp.status = 200 /\ Len(req.pub) = 1 /\ req.pub[1].result = "ok"
  /\ mailbox.by = "requestAccountReactivation" /\ mailbox.token = req.minted

(***************************************************************************)
(* The commit phase of the reactivation                                    *)
(***************************************************************************)
\* C21: reactivateAccount looks the account up only for a token it verified;
\* for an account already active it answers 200 without a token or a PATCH;
\* otherwise it sends one PATCH { isActive: true } whose bearer is an
\* internal token for that account minted at that moment for 900 seconds,
\* and a successful PATCH changes nothing but isActive; it never publishes.
C21_ReactivationCommit ==
  req.handler = "reactivateAccount" =>
    /\ req.pub = <<>> /\ req.topic = Absent
    /\ (req.lookups > 0 \/ req.pc \in {"getUser", "patch"}) =>
         /\ req.token.wellformed /\ req.token.key = JwtSecret
         /\ req.token.payload.iss = JwtIssuer /\ req.token.payload.aud = JwtAudience
         /\ req.email = req.token.payload.email
    /\ (req.user # Null /\ Truthy(req.user.isActive)) =>
         /\ req.pc = "done" /\ Outcome(200, "Account is already active.")
         /\ req.minted = Malformed /\ ~req.patch.sent
         /\ dir[req.email] = req.user
    /\ req.patch.sent =>
         /\ req.user # Null /\ ~Truthy(req.user.isActive)
         /\ req.patch.body = [NoBody EXCEPT !.isActive = "true"]
         /\ req.patch.auth = req.minted
         /\ PatchTarget(req.patch) = req.user.id
         /\ req.minted.payload.iat = req.mintedAt
         /\ req.minted.payload.exp = req.mintedAt + 900
         /\ req.pc \in {"patch", "done"}
    /\ (req.pc = "done" /\ req.patch.sent) =>
         IF req.dirStatus = 200
           THEN /\ Outcome(200, "Account reactivated successfully.")
                /\ dir[req.email] = [req.user EXCEPT !.isActive = "true"]
           ELSE /\ req.resp.status = req.dirStatus
                /\ dir[req.email] = req.user

\* a deactivated account was reactivated with the token of its request phase
C21_Witness ==
  /\ req.handler = "reactivateAccount" /\ req.pc = "done"
  /\ req.tokenBy = "requestAccountReactivation"
  /\ req.patch.sent /\ req.dirStatus = 200
  /\ req.user.isActive = "false" /\ dir[req.email].isActive = "true"

(***************************************************************************)
(* Properties of the guarded routes                                        *)
(***************************************************************************)
\* the controller of the request's route was invoked
HandlerRan == \E i \in DOMAIN req.ran : req.ran[i] = req.handler

\* the request has made no call to the User Directory
NoDirectoryCall ==
  /\ ~req.patch.sent /\ ~req.del.sent
  /\ req.lookups = 0 /\ req.dirStatus = NoStatus

\* C22: changePassword sends its PATCH only for an authenticated identity
\* whose new password is given, differs from the old one and meets the
\* strength rules; a request without an identity ends with 401, one whose new
\* password is missing or equal to the old one with 400, one whose new
\* password is too weak with 400, each without any call to the directory.
C22_ChecksBeforeUpstream ==
  req.handler = "changePassword" =>
    LET sameOrMissing == req.password = Absent \/ req.password = req.oldPassword
        weak == ~isValidPassword(req.password).valid
    IN /\ req.patch.sent =>
            /\ HandlerRan
            /\ req.identity # Null /\ req.identity.id # Absent
            /\ ~sameOrMissing /\ ~weak
       /\ (req.pc = "done" /\ req.identity = Null) =>
            /\ req.resp.status = 401 /\ NoDirectoryCall
       /\ (HandlerRan /\ sameOrMissing) =>
            /\ req.pc = "done" /\ req.resp.status = 400 /\ NoDirectoryCall
       /\ (HandlerRan /\ weak) =>
            /\ req.pc = "done" /\ req.resp.status = 400 /\ NoDirectoryCall

\* an authenticated caller asked for the password it already has and got 400
C22_Witness ==
  /\ req.handler = "changePassword" /\ req.pc = "done"
  /\ HandlerRan /\ req.identity # Null
  /\ req.oldPassword = "pw1" /\ req.password = "pw1"
  /\ req.resp.status = 400 /\ NoDirectoryCall

\* the request went through authMiddleware
Guarded == req.ran # <<>> /\ req.ran[1] = "authMiddleware"

\* the Authorization header of the request carries a bearer token
CarriesBearer == req.header.scheme = "Bearer" /\ req.header.token # MissingToken

\* the guard would accept the token at instant t
Usable(token, t) == VerifyAndAttach(token, getJwtConfig, t).err = NoError

\* the request passed the guard as the holder of the token
AuthenticatedBy(token) == req.identity = Identity(token.payload)

\* C23: the guard verifies the bearer token of the Authorization header when
\* there is one, and nothing else; when the header carries no bearer token
\* it verifies the token cookie, so that a usable cookie authenticates the
\* request; with neither it fails with 401 'Not authorized to access this
\* route'.
C23_HeaderThenCookie ==
  Guarded =>
    /\ CarriesBearer =>
         /\ Usable(req.header.token, now) => AuthenticatedBy(req.header.token)
         /\ req.identity # Null => AuthenticatedBy(req.header.token)
    /\ (~CarriesBearer /\ Usable(req.cookies, now)) => AuthenticatedBy(req.cookies)
    /\ (~CarriesBearer /\ req.cookies = MissingToken) =>
         /\ req.pc = "done" /\ req.identity = Null
         /\ req.err = ErrorResponse("Not authorized to access this route", 401)
         /\ req.resp.status = 401

\* the token the guard took from the request
Presented == ExtractToken(req.header, req.cookies)

\* how often the controller of the request's route was invoked
Invocations == Cardinality({i \in DOMAIN req.ran : req.ran[i] = req.handler})

\* C24: the session token a caller kept from login is accepted by the guard
\* at every instant before its exp, with the identity its claims encode (id
\* from sub, email, name, roles, emailVerified); a request that presented it
\* then carries exactly that identity, and its handler is invoked at most
\* once; an identity is attached, and the handler of a guarded route invoked,
\* only for a token that verified and carries sub, iss and aud.
C24_SessionAccepted ==
  /\ (client.session # MissingToken /\ now < client.session.payload.exp) =>
       /\ VerifyAndAttach(client.session, GuardConfig(proc, env), now)
            = [err |-> NoError, identity |-> Identity(client.session.payload)]
       /\ Identity(client.session.payload).id = IdOf(client.session.payload.email)
       /\ Identity(client.session.payload).roles = client.session.payload.roles
       /\ (Guarded /\ Presented = client.session) =>
            /\ AuthenticatedBy(client.session)
            /\ (req.pc = "done" /\ req.err = NoError) => Invocations = 1
  /\ Guarded =>
       /\ Invocations <= 1
       /\ HandlerRan => req.identity # Null
       /\ req.identity # Null =>
            /\ Presented.wellformed /\ Presented.key = JwtSecret
            /\ Presented.payload.iss = JwtIssuer /\ Presented.payload.aud = JwtAudience
            /\ Presented.payload.sub # Absent
            /\ Presented.payload.exp = NoTime \/ Presented.payload.exp > 0
            /\ AuthenticatedBy(Presented)

\* a second before its session token expires a caller reads its identity
C24_Witness ==
  /\ req.handler = "me" /\ req.pc = "done" /\ req.resp.status = 200
  /\ Presented = client.session
  /\ now > 0 /\ now < client.session.payload.exp
  /\ req.ran = <<"authMiddleware", "authorizeRoles", "me">>
  /\ req.resp.user = Identity(client.session.payload)
  /\ req.resp.user.id = IdOf("a@x.com")

\* the error the guard handed to next() reached the caller as the response
Surfaced(status) ==
  /\ req.pc = "done" /\ req.resp.status = status
  /\ req.resp.message = req.err.message

\* the token the guard took is signed by this service for its audience
WellSigned(token) ==
  /\ token.wellformed /\ token.key = JwtSecret
  /\ token.payload.iss = JwtIssuer /\ token.payload.aud = JwtAudience

\* C25: a request the guard turned away carries no identity, never reaches
\* its handler, and hands the error layer the reason as it arose: no token
\* is ErrorResponse 401 'Not authorized to access this route', a string that
\* is no JWT is JsonWebTokenError 'jwt malformed', a foreign signature is
\* JsonWebTokenError 'invalid signature', and an expired token is
\* TokenExpiredError 'jwt expired', answered with 401 and that message.
C25_ReasonPropagated ==
  (Guarded /\ req.identity = Null) =>
    /\ ~HandlerRan /\ req.ran = <<"authMiddleware">>
    /\ req.err # NoError /\ Surfaced(401) /\ NoDirectoryCall
    /\ Presented = MissingToken <=>
         req.err = ErrorResponse("Not authorized to access this route", 401)
    /\ (Presented # MissingToken /\ ~Presented.wellformed) <=>
         (req.err.name = "JsonWebTokenError" /\ req.err.message = "jwt malformed")
    /\ (Presented.wellformed /\ Presented.key # JwtSecret) <=>
         (req.err.name = "JsonWebTokenError" /\ req.err.message = "invalid signature")
    /\ req.err.name = "TokenExpiredError" =>
         /\ req.err.message = "jwt expired"
         /\ Presented.wellformed /\ Presented.key = JwtSecret
         /\ Presented.payload.exp # NoTime /\ Presented.payload.exp <= now
    /\ (WellSigned(Presented) /\ Presented.payload.sub # Absent) =>
         req.err.name = "TokenExpiredError"

\* /me was called with the session token at the instant it expired
C25_Witness ==
  /\ req.handler = "me" /\ Guarded /\ req.pc = "done"
  /\ Presented = client.session /\ now >= client.session.payload.exp
  /\ req.identity = Null /\ ~HandlerRan
  /\ req.err.name = "TokenExpiredError"
  /\ req.resp.status = 401 /\ req.resp.message = "jwt expired"

(***************************************************************************)
(* Properties of the role guard                                            *)
(***************************************************************************)
\* the role guard has decided on the request
RoleChecked == \E i \in DOMAIN req.ran : req.ran[i] = "authorizeRoles"

\* the identity holds one of the required roles, spelled the same way
HoldsRequired ==
  /\ req.identity # Null
  /\ req.identity.roles # NoRoles
  /\ req.required \cap req.identity.roles # {}

\* C26: authorizeRoles(required...) hands the request on exactly when an
\* identity is attached whose roles contain one of the required names,
\* letter for letter; otherwise (no identity, roles undefined or empty,
\* nothing in common, nothing required) it fails with 403 'Forbidden:
\* insufficient role' and the handler does not run.
C26_RoleGuard ==
  /\ HandlerRan => (RoleChecked /\ HoldsRequired)
  /\ RoleChecked =>
       IF HoldsRequired
         THEN /\ req.err = NoError
              /\ req.pc \in {"handler", "done"}
              /\ req.pc = "done" => (HandlerRan /\ req.resp.status = 200)
         ELSE /\ req.pc = "done" /\ ~HandlerRan
              /\ req.err = ErrorResponse("Forbidden: insufficient role", 403)
              /\ Outcome(403, "Forbidden: insufficient role")

\* an identity holding 'Admin' was refused on a route that requires 'admin'
C26_Witness ==
  /\ RoleChecked /\ req.pc = "done"
  /\ req.identity # Null /\ req.identity.roles = {"Admin"}
  /\ req.required = {"admin"}
  /\ req.resp.status = 403 /\ ~HandlerRan

\* C27: a DELETE of a user by id is sent only by adminDeleteUser, after the
\* guard verified the request's token and the role guard found 'admin' among
\* its roles; a request to that route with no token, an invalid token, or a
\* valid token without the admin role ends with 401 or 403 and makes no
\* call to the directory.
C27_AdminOnly ==
  /\ (req.del.sent /\ req.del.id # "self") =>
       /\ req.handler = "adminDeleteUser"
       /\ req.ran = <<"authMiddleware", "authorizeRoles", "adminDeleteUser">>
       /\ WellSigned(Presented) /\ AuthenticatedBy(Presented)
       /\ "admin" \in req.identity.roles
       /\ req.del.auth = Presented
  /\ (req.handler = "adminDeleteUser" /\ req.pc = "done"
        /\ (req.identity = Null \/ "admin" \notin req.identity.roles)) =>
       /\ NoDirectoryCall /\ ~HandlerRan
       /\ req.resp.status = IF req.identity = Null THEN 401 ELSE 403

\* an administrator deleted the account by its id
C27_Witness ==
  /\ req.handler = "adminDeleteUser" /\ req.pc = "done"
  /\ req.del.sent /\ req.del.id = IdOf("a@x.com")
  /\ "admin" \in req.identity.roles
  /\ req.resp.status = 204 /\ dir["a@x.com"] = Null

\* the guard accepts the session token the caller kept
SessionStands ==
  (client.session # MissingToken /\ now < client.session.payload.exp) =>
    VerifyAndAttach(client.session, GuardConfig(proc, env), now).err = NoError

\* a logout request: answered 200 whatever it carried, nothing looked up,
\* nothing sent to the directory, nothing published
LogoutIsLocal ==
  req.handler = "logout" =>
    /\ req.pc = "done" /\ Outcome(200, "Logged out successfully")
    /\ req.ran = <<"logout">> /\ req.identity = Null
    /\ NoDirectoryCall
    /\ req.pub = <<>> /\ req.topic = Absent /\ req.minted = Malformed

\* the step logout takes: the cookie goes, everything else stays
LogoutStep ==
  (req'.handler = "logout" /\ (req' # req \/ client' # client)) =>
    /\ client' = [client EXCEPT !.jar = MissingToken]
    /\ dir' = dir /\ mailbox' = mailbox /\ proc' = proc /\ env' = env

C29_SecretValidatedAtStartup ==
  /\ proc.phase = "serving" =>
       /\ HasValue(env.JWT_SECRET)
       /\ Len(env.JWT_SECRET) >= 32
  /\ proc.last.op = "signToken" => ~proc.last.threw

\* the configuration every call of the process has used is the one the
\* environment gives, and so is the guard's cache once it is filled
SameConfiguration ==
  /\ proc.last.op # "none" => proc.last.config = JwtConfigOf(env)
  /\ proc.guardCache # Null => proc.guardCache = JwtConfigOf(env)

\* the engine and the guard judge the token at hand alike
EngineAndGuardAgree ==
  tok.origin # "none" =>
    LET engine == verifyTokenWith(JwtConfigOf(env), tok.token, now)
        guard == VerifyAndAttach(tok.token, GuardConfig(proc, env), now)
    IN /\ (engine.value # Null) <=> (guard.err = NoError)
       /\ (vres.done /\ Guarded /\ Presented = tok.token) =>
            ((vres.out.value # Null) <=> (req.identity # Null))

\* the configuration was obtained once: the engine read it at most once
ObtainedOnce == proc.engineReads <= 1

CreateCalled == req.userData # NoUserData

\* C31: whatever the body of a registration holds, the account sent to the
\* directory carries isEmailVerified false, the roles {customer} and no
\* isActive, and the email, password and names of the body; the record the
\* directory creates has that role and is unverified; a registration that
\* lacks email, password, first name or last name ends with 400 and nothing
\* is sent to the directory.
C31_DefaultsForced ==
  req.handler = "register" =>
    /\ CreateCalled =>
         /\ req.userData.isEmailVerified = "false"
         /\ req.userData.roles = {"customer"}
         /\ req.userData.isActive = Absent
         /\ req.userData.email = req.body.email
         /\ req.userData.password = req.body.password
         /\ req.userData.firstName = req.body.firstName
         /\ req.userData.lastName = req.body.lastName
         /\ Absent \notin {req.body.email, req.body.password,
                           req.body.firstName, req.body.lastName}
    /\ (req.pc = "done" /\ req.resp.status = 201) =>
         /\ dir[req.email].roles = {"customer"}
         /\ dir[req.email].isEmailVerified = "false"
    /\ Absent \in {req.body.email, req.body.password,
                   req.body.firstName, req.body.lastName} =>
         /\ req.pc = "done" /\ req.resp.status = 400
         /\ ~CreateCalled /\ req.dirStatus = NoStatus

\* a body asking for the admin role and a verified email was registered as
\* an unverified customer
C31_Witness ==
  /\ req.handler = "register" /\ req.pc = "done" /\ req.resp.status = 201
  /\ req.body.roles = {"customer", "admin"} /\ req.body.isEmailVerified = "true"
  /\ req.body.isActive = "false"
  /\ req.userData.roles = {"customer"}
  /\ dir["a@x.com"].roles = {"customer"} /\ dir["a@x.com"].isEmailVerified = "false"

(***************************************************************************)
(* Properties of the service as a whole                                    *)
(***************************************************************************)
\* the topics a workflow publishes, in the order of its calls
TopicsOf(handler) ==
  CASE handler = "login" -> <<"auth.login">>
    [] handler = "register" -> RegistrationTopics
    [] handler = "forgotPassword" -> <<"auth.password.reset.requested">>
    [] handler = "resetPassword" -> <<"auth.password.reset.completed">>
    [] handler = "resendVerificationEmail" -> <<"auth.email.verification.requested">>
    [] handler = "requestAccountReactivation" -> <<"auth.account.reactivation.requested">>
    [] OTHER -> <<>>

IsPrefix(s, t) ==
  /\ Len(s) <= Len(t)
  /\ \A i \in DOMAIN s : s[i] = t[i]

\* C32: the publications of a request are, in order, topics of its own
\* workflow, each at most once: auth.login for login, auth.user.registered
\* then auth.email.verification.requested for register, and so on; logout,
\* changePassword, verifyEmail, reactivateAccount, verify, me, deleteAccount
\* and adminDeleteUser publish nothing; and a request that published ends
\* with a success status.
C32_OwnTopicsOnce ==
  /\ IsPrefix(TopicsCalled, TopicsOf(req.handler))
  /\ req.handler \in {"logout", "changePassword", "verifyEmail", "reactivateAccount",
                      "verify", "me", "deleteAccount", "adminDeleteUser"} =>
       (TopicsCalled = <<>> /\ req.topic = Absent)
  /\ (TopicsCalled # <<>> /\ req.pc = "done") => req.resp.status \in {200, 201}

\* a password reset completed and published its one event
C32_Witness ==
  /\ req.handler = "resetPassword" /\ req.pc = "done" /\ req.resp.status = 200
  /\ TopicsCalled = <<"auth.password.reset.completed">>
  /\ req.pub[1].result = "ok"

\* the fields of the user object of a response
ProfileFields ==
  {"id", "email", "firstName", "lastName", "name", "roles", "isEmailVerified", "isActive"}

\* C33: the user object login and register return holds the profile fields
\* of the account and no other field of the directory's record, which does
\* carry the password hash; neither the token returned nor the message is or
\* holds the password.
C33_NoPasswordInResponse ==
  req.handler \in {"login", "register"} =>
    /\ req.resp.user # Null =>
         /\ req.user # Null /\ "password" \in DOMAIN req.user
         /\ DOMAIN req.resp.user = ProfileFields
         /\ \A f \in ProfileFields : req.resp.user[f] = Profile(req.user)[f]
    /\ "password" \notin DOMAIN req.resp
    /\ "password" \notin DOMAIN req.resp.token.payload
    /\ req.resp.message \notin Passwords

\* a login answered with the profile of an account whose record holds a hash
C33_Witness ==
  /\ req.handler = "login" /\ req.pc = "done" /\ req.resp.status = 200
  /\ req.user.password = Hash("pw1")
  /\ req.resp.user # Null /\ req.resp.user.email = "a@x.com"

\* C34: when a request has passed the guard, the token its handler forwards
\* to the directory, as the bearer of changePassword's PATCH or of a DELETE,
\* is the token the guard verified, whatever the Authorization header and
\* the cookie of the request are.
C34_ForwardsVerifiedToken ==
  (Guarded /\ req.identity # Null) =>
    /\ req.patch.sent => req.patch.auth = Presented
    /\ req.del.sent => req.del.auth = Presented

\* the workflows that mint purpose or internal tokens
PurposeMinters ==
  {"forgotPassword", "verifyEmail", "resendVerificationEmail",
   "requestAccountReactivation", "reactivateAccount", "register"}

\* C35: a token minted for a purpose (claims {email}) or for an internal
\* call (claims {id, email, roles}) carries no sub; although it is signed by
\* this service for its audience and has not expired, the guard attaches no
\* identity for it and fails with 'Invalid token structure', and a request
\* that presented it on a guarded route never reaches the handler.
C35_PurposeTokenNoSession ==
  /\ (req.handler \in PurposeMinters /\ req.minted # Malformed) =>
       req.minted.payload.sub = Absent
  /\ mailbox.by \in PurposeMinters =>
       /\ mailbox.token.payload.sub = Absent
       /\ WellSigned(mailbox.token) /\ now < mailbox.token.payload.exp
       /\ VerifyAndAttach(mailbox.token, GuardConfig(proc, env), now).identity = Null
       /\ (Guarded /\ Presented = mailbox.token) =>
            /\ req.identity = Null /\ ~HandlerRan /\ req.pc = "done"
            /\ req.err.message = "Invalid token structure"
            /\ NoDirectoryCall

\* the internal token of an email verification was sent to /me and refused
C35_Witness ==
  /\ mailbox.by = "verifyEmail" /\ mailbox.token.payload.id = IdOf("a@x.com")
  /\ req.handler = "me" /\ Guarded /\ Presented = mailbox.token
  /\ req.pc = "done" /\ req.identity = Null
  /\ req.err.message = "Invalid token structure"

(***************************************************************************)
(* Two commit requests in flight                                           *)
(***************************************************************************)
\* the handlers that commit a flag with the token of a request phase
Commits == {"verifyEmail", "reactivateAccount"}

Committing(r) == r.handler \in Commits

\* the account exists and at least one of its flags is still to be raised
ConcurrentAccounts ==
  {User("a@x.com", "pw1", isActive, isEmailVerified) :
     isActive \in {"true", "false"}, isEmailVerified \in {"true", "false"}}
  \ {User("a@x.com", "pw1", "true", "true")}

ConcurrentInit ==
  /\ now = 0
  /\ dir \in [Emails -> ConcurrentAccounts]
  /\ req = Idle
  /\ mailbox = NoMail
  /\ tok = NoTok
  /\ vres = NoVres
  /\ client = NoClient
  /\ env = ConfiguredEnv
  /\ proc = Serving
  /\ parked = Idle
  /\ secretManager = NotLoaded

\* the request phases run alone and hand out the token
Requests ==
  /\ ~Committing(req) /\ parked = Idle
  /\ \/ resendVerificationEmail
     \/ resendVerificationEmailGotUser
     \/ resendVerificationEmailPublished
     \/ requestAccountReactivation
     \/ requestAccountReactivationGotUser
     \/ requestAccountReactivationPublished

\* a commit request arrives: asyncHandler runs it up to its first await
Arrive ==
  /\ ~Committing(req)
  /\ verifyEmail \/ reactivateAccount

\* the first commit request is suspended on an await (or has answered) and
\* the event loop is free to accept the second one
Yield ==
  /\ Committing(req) /\ parked = Idle
  /\ parked' = req
  /\ req' = Idle
  /\ UNCHANGED <<now, dir, mailbox, tok, vres, client, env, proc, secretManager>>

\* the event loop turns to the other request: its awaited call settles next
Switch ==
  /\ Committing(req) /\ Committing(parked)
  /\ req' = parked
  /\ parked' = req
  /\ UNCHANGED <<now, dir, mailbox, tok, vres, client, env, proc, secretManager>>

\* the continuations of the request the event loop is running
Settles ==
  \/ verifyEmailGotUser
  \/ verifyEmailPatched
  \/ reactivateAccountGotUser
  \/ reactivateAccountPatched

ConcurrentNext == Requests \/ Arrive \/ Yield \/ Switch \/ Settles

ConcurrentSpec == ConcurrentInit /\ [][ConcurrentNext]_vars

\* the commit request has answered
Settled(r) == Committing(r) /\ r.pc = "done"

\* the request carried a token that verifyToken accepted for the account
ValidFor(r, email) == Committing(r) /\ r.email = email

\* the directory answered the lookup and accepted the write, if one was sent
DirectoryServed(r) == r.user # Null /\ r.dirStatus = 200

\* the flag a commit handler raises
Raised(handler, user) ==
  IF handler = "verifyEmail" THEN user.isEmailVerified = "true"
                             ELSE user.isActive = "true"

\* C36: whenever two verify-email requests (or two reactivation commits)
\* with valid tokens for the same account have both answered, in whatever
\* order their lookups and writes were interleaved, and the directory
\* served each of them, both answered 200 and the account's flag is true:
\* no interleaving leaves the flag unset or fails one request because of
\* the other.
C36_ConcurrentCommits ==
  \A email \in Emails :
    ( /\ Settled(req) /\ Settled(parked) /\ req.handler = parked.handler
      /\ ValidFor(req, email) /\ ValidFor(parked, email)
      /\ DirectoryServed(req) /\ DirectoryServed(parked) ) =>
        /\ req.resp.status = 200 /\ parked.resp.status = 200
        /\ req.err = NoError /\ parked.err = NoError
        /\ Raised(req.handler, dir[email])

\* both verify-email requests looked the account up before either write
\* landed, both wrote, and both answered that the email is verified
C36_Witness ==
  /\ Settled(req) /\ Settled(parked)
  /\ req.handler = "verifyEmail" /\ parked.handler = "verifyEmail"
  /\ ValidFor(req, "a@x.com") /\ ValidFor(parked, "a@x.com")
  /\ req.user # Null /\ req.user.isEmailVerified = "false"
  /\ parked.user # Null /\ parked.user.isEmailVerified = "false"
  /\ req.patch.sent /\ parked.patch.sent
  /\ req.resp.message = "Email verified successfully"
  /\ parked.resp.message = "Email verified successfully"
  /\ dir["a@x.com"].isEmailVerified = "true"

\* the handlers the flags' transitions are not entrusted to
DirectoryReaders ==
  {"login", "logout", "forgotPassword", "resendVerificationEmail",
   "requestAccountReactivation", "verify", "me"}

\* the running request verified its token and resolved the account
TokenVerifiedAndResolved(handler, email) ==
  /\ req.handler = handler /\ req.pc = "patch"
  /\ req.email = email /\ req.user # Null /\ req.user.email = email
  /\ verifyToken(req.token, now).value # Null

FlagsStep ==
  /\ \A email \in DOMAIN dir :
       (dir[email] # Null /\ dir'[email] # Null) =>
         /\ dir'[email].isEmailVerified # dir[email].isEmailVerified =>
              /\ dir[email].isEmailVerified # "true"
              /\ dir'[email].isEmailVerified = "true"
              /\ TokenVerifiedAndResolved("verifyEmail", email)
         /\ dir'[email].isActive # dir[email].isActive =>
              /\ dir[email].isActive # "true"
              /\ dir'[email].isActive = "true"
              /\ TokenVerifiedAndResolved("reactivateAccount", email)
  /\ req'.handler \in DirectoryReaders => dir' = dir

\* C37: no step of the service lowers a flag of an existing account;
\* isEmailVerified changes only to true and only in verifyEmail, isActive
\* changes only to true and only in reactivateAccount, each time after the
\* token was verified and the account resolved; login, logout,
\* forgotPassword, resendVerificationEmail, requestAccountReactivation,
\* verify and me leave the directory as it is.
C37_FlagsOnlyRaised == [][FlagsStep]_vars

\* verifyEmail raised isEmailVerified on an account that stays deactivated
C37_Witness ==
  /\ req.handler = "verifyEmail" /\ req.pc = "done" /\ req.resp.status = 200
  /\ req.user # Null /\ req.user.isEmailVerified = "false"
  /\ dir[req.user.email] # Null
  /\ dir[req.user.email].isEmailVerified = "true"
  /\ dir[req.user.email].isActive = "false"

\* the lookup of the running request returned the account
Resolved(handler) == req.handler = handler /\ req.user # Null

RejectedAs(message) == req.pc = "done" /\ req.resp.message = message

\* login would turn the account away as deactivated
LoginRejectsDeactivated(user) ==
  \A password \in Passwords :
    LoginCheck(user, password).message = "Account is deactivated"

\* C38: login and requestAccountReactivation agree on what an inactive
\* account is: for every value of isActive, login answers 'Account is
\* deactivated' exactly when requestAccountReactivation does not answer
\* 'Account is already active.', and no account that can log in is issued
\* a reactivation token.
C38_AgreeOnInactive ==
  /\ Resolved("login") =>
       (RejectedAs("Account is deactivated") <=> ~Truthy(req.user.isActive))
  /\ Resolved("requestAccountReactivation") =>
       (RejectedAs("Account is already active.") <=> ~LoginRejectsDeactivated(req.user))
  /\ (Resolved("requestAccountReactivation") /\ req.minted # Malformed) =>
       \A password \in Passwords : LoginCheck(req.user, password).status # 200

(***************************************************************************)
(* Two password changes of one caller                                      *)
(***************************************************************************)
PasswordInit ==
  /\ now = 0
  /\ dir = [email \in Emails |-> User(email, "pw1", "true", "true")]
  /\ req = Idle
  /\ mailbox = NoMail
  /\ tok = NoTok
  /\ vres = NoVres
  /\ client = NoClient
  /\ env = ConfiguredEnv
  /\ proc = Serving
  /\ parked = Idle
  /\ secretManager = NotLoaded

\* PUT /password/change with the session the caller kept
authMiddlewareChange ==
  authMiddlewareOn({"changePassword"}, {NoHeader, Bearer(client.session)}, {client.jar})

\* the caller's first password change is set aside, awaiting the directory
\* or answered, and the caller is free to send the second one
SetAside ==
  /\ req.handler = "changePassword" /\ req.pc \in {"patch", "done"}
  /\ parked = Idle
  /\ parked' = req
  /\ req' = Idle
  /\ UNCHANGED <<now, dir, mailbox, tok, vres, client, env, proc, secretManager>>

\* the event loop turns to the other password change
Turn ==
  /\ req.handler = "changePassword" /\ parked.handler = "changePassword"
  /\ req' = parked
  /\ parked' = req
  /\ UNCHANGED <<now, dir, mailbox, tok, vres, client, env, proc, secretManager>>

PasswordNext ==
  \/ login
  \/ loginGotUser
  \/ loginPublished
  \/ keepSession
  \/ authMiddlewareChange
  \/ changePassword
  \/ changePasswordPatched
  \/ SetAside
  \/ Turn

PasswordSpec == PasswordInit /\ [][PasswordNext]_vars

\* the password change was handled for an authenticated caller and its
\* passwords passed the local validation
ChangeValidated(r) ==
  /\ r.handler = "changePassword" /\ r.pc \in {"patch", "done"}
  /\ r.identity # Null
  /\ \E i \in DOMAIN r.ran : r.ran[i] = "changePassword"
  /\ validatePasswordChange(r.oldPassword, r.password).valid

\* C39: two password changes of the same authenticated caller with the
\* same newPassword and any two oldPassword values that pass the local
\* validation send the identical PATCH to the directory, and get the
\* identical outcome when the directory answers them alike; the PATCH
\* carries the new password only, so the old password is neither forwarded
\* nor compared with the stored hash.
C39_OldPasswordIgnored ==
  ( /\ ChangeValidated(req) /\ ChangeValidated(parked)
    /\ req.identity = parked.identity
    /\ req.header = parked.header /\ req.cookies = parked.cookies
    /\ req.password = parked.password ) =>
      /\ req.patch = parked.patch
      /\ req.patch.sent => req.patch.body = [NoBody EXCEPT !.password = req.password]
      /\ ( /\ req.pc = "done" /\ parked.pc = "done"
           /\ req.dirStatus = parked.dirStatus ) =>
             /\ req.resp = parked.resp
             /\ req.err = parked.err

\* one change gave the account's password as the old one, the other a string
\* that was never its password, and both were answered 200
C39_Witness ==
  /\ ChangeValidated(req) /\ ChangeValidated(parked)
  /\ req.identity = parked.identity /\ req.password = parked.password
  /\ req.oldPassword = "pw0" /\ parked.oldPassword = "pw1"
  /\ req.pc = "done" /\ parked.pc = "done"
  /\ req.resp.status = 200 /\ parked.resp.status = 200
  /\ req.resp.message = "Password changed successfully"
  /\ dir[req.identity.email].password = Hash(req.password)

(***************************************************************************)
(* DaprSecretManager                                                       *)
(***************************************************************************)
StoreSecret == "jwt-secret-of-the-secret-store"

\* (process.env.MESSAGING_PROVIDER || 'dapr').toLowerCase()
MessagingProviders == {"dapr", "rabbitmq"}

\* what the sidecar answers to secret.get('secretstore', 'JWT_SECRET'): the
\* value it holds (possibly the empty string), no such secret (Absent), or
\* no answer at all
StoreAnswers == {StoreSecret, "", Absent, "unreachable"}

\* process.env.JWT_SECRET as the secret manager may find it
SecretEnvs ==
  {e \in ConfigEnvs : e.JWT_SECRET \in {Absent, "", JwtSecret} /\ e.JWT_EXPIRATION = Absent}

SecretInit ==
  /\ now = 0
  /\ dir = [email \in Emails |-> Null]
  /\ req = Idle
  /\ mailbox = NoMail
  /\ tok = NoTok
  /\ vres = NoVres
  /\ client = NoClient
  /\ env \in SecretEnvs
  /\ proc = Booting
  /\ parked = Idle
  /\ secretManager \in
       {[NotLoaded EXCEPT !.store = store] : store \in StoreAnswers}

\* export const secretManager = new DaprSecretManager(): the constructor sets
\* client to null without Dapr, and otherwise starts _initDaprClient without
\* awaiting it, so that client is still undefined when it returns
constructor ==
  /\ secretManager.messagingProvider = Absent
  /\ \E messagingProvider \in MessagingProviders :
       secretManager' =
         IF messagingProvider # "dapr"
           THEN [secretManager EXCEPT !.messagingProvider = messagingProvider,
                                      !.client = "null"]
           ELSE [secretManager EXCEPT !.messagingProvider = messagingProvider,
                                      !.importing = TRUE]
  /\ UNCHANGED <<now, dir, req, mailbox, tok, vres, client, env, proc, parked>>

\* _initDaprClient resumes after await import('@dapr/dapr') and assigns
\* this.client
initDaprClient ==
  /\ secretManager.importing
  /\ secretManager' = [secretManager EXCEPT !.importing = FALSE, !.client = "DaprClient"]
  /\ UNCHANGED <<now, dir, req, mailbox, tok, vres, client, env, proc, parked>>

\* getSecret('JWT_SECRET'): throws without a client, when the store does not
\* answer and when it has no such secret; String(value) otherwise
getSecret(m) ==
  IF m.client # "DaprClient" THEN [threw |-> TRUE, value |-> Absent]
  ELSE IF m.store \in {Absent, "unreachable"} THEN [threw |-> TRUE, value |-> Absent]
  ELSE [threw |-> FALSE, value |-> m.store]

\* DaprSecretManager.getJwtConfig: the store first, process.env.JWT_SECRET
\* when getSecret throws, an error when the secret it ends up with is falsy
DaprGetJwtConfig(m, e) ==
  LET fromStore == getSecret(m)
      secret == IF fromStore.threw THEN e.JWT_SECRET ELSE fromStore.value
  IN IF ~HasValue(secret)
       THEN [called |-> TRUE, threw |-> TRUE, secret |-> Absent]
       ELSE [called |-> TRUE, threw |-> FALSE, secret |-> secret]

\* export const getJwtConfig = () => secretManager.getJwtConfig(), callable as
\* soon as the module has been evaluated
secretManagerGetJwtConfig ==
  /\ secretManager.messagingProvider # Absent
  /\ secretManager' = [secretManager EXCEPT !.answer = DaprGetJwtConfig(secretManager, env)]
  /\ secretManager' # secretManager
  /\ UNCHANGED <<now, dir, req, mailbox, tok, vres, client, env, proc, parked>>

SecretNext == constructor \/ initDaprClient \/ secretManagerGetJwtConfig

SecretSpec == SecretInit /\ [][SecretNext]_vars

\* the store holds a usable JWT_SECRET and the process runs with Dapr
StoreHolds ==
  /\ secretManager.messagingProvider = "dapr"
  /\ secretManager.store = StoreSecret

\* C40: getJwtConfig follows the priority order at every point of the
\* process lifetime: with Dapr and a store that holds JWT_SECRET the answer
\* is the store's value, also for a call made while the client's
\* initialisation is still pending; process.env.JWT_SECRET is answered only
\* when the store lookup fails; with neither source it throws.
C40_PriorityOrder ==
  secretManager.answer.called =>
    /\ StoreHolds =>
         /\ ~secretManager.answer.threw
         /\ secretManager.answer.secret = StoreSecret
    /\ (~secretManager.answer.threw /\ secretManager.answer.secret # secretManager.store) =>
         /\ secretManager.answer.secret = env.JWT_SECRET
         /\ \/ secretManager.messagingProvider # "dapr"
            \/ secretManager.store \in {Absent, "unreachable"}
    /\ (~StoreHolds /\ ~HasValue(env.JWT_SECRET)) =>
         secretManager.answer.threw

====
